---- MODULE Spec2Model ----
\* A model of the elaris NES core: the 6502 CPU (cpu/cpu.rs), the bus
\* (bus.rs), the PPU (ppu/ppu.rs), the APU frame counter and DMC
\* (apu/apu.rs), the controller (controller.rs) and the frame driver
\* (main.rs).
\*
\* The machine is a record m = [cpu, ram, ppu, apu, controller, cart, obs,
\* fault]:
\*   cpu, ppu, apu, controller  the structs of the source, field by field;
\*   cart        the NROM cartridge: its mirroring and the CHR bytes written
\*               so far (a CHR byte never written is image data, an input);
\*   ram         the bus's 2 KiB RAM, kept sparse: a cell that was never
\*               written holds 0, as after NesBus::new;
\*   obs         history variables (what the bus was asked to tick, which
\*               interrupts were taken, what the last operation did);
\*   fault       TRUE once the core has panicked.
\* Bytes read from the cartridge are inputs of the step that reads them,
\* except the six vector bytes, which the modelled image fixes (PrgVector).
EXTENDS Integers, Sequences, FiniteSets, TLC

VARIABLES cpu, ram, ppu, apu, controller, cart, obs, fault, driver

vars == <<cpu, ram, ppu, apu, controller, cart, obs, fault, driver>>

\* ---------------------------------------------------------------- bounds

\* CPU cycles a run of the frame driver may consume after its first state.
MaxCycles == 12
\* Instructions a run of the CPU interface may execute.
MaxSteps == 2
\* Register accesses a run of the PPU register interface may make.
MaxOps == 5
\* Accesses a run of the controller port may make.
MaxPadOps == 11
\* CPU cycles a boot run may consume after reset.
BootCycles == 29832
\* Calls of APU::tick and $4017 writes a run of the frame sequencer may make.
MaxSeqOps == 6
\* Register accesses and DMC fetches a run of the APU register interface may make.
MaxApuOps == 4
\* Stores, ticks and DMC fetches a run of the DMC sample playback may make.
MaxDmcOps == 6
\* Dots a run of the PPU dot clock may tick: up to the second vblank and a few dots on.
MaxDots == 171870
\* Scanlines a run of the sprite evaluation may tick through.
MaxLines == 16
\* Accesses a run of nametable accesses may make.
MaxNtOps == 3
\* Steps a run of DMC requests may make.
MaxReqOps == 4
\* Steps a run on the status register may make.
MaxFlagOps == 3

\* ------------------------------------------------------- bits and bytes

Byte == 0..255

\* v & mask != 0 for a one-bit mask.
HasBit(v, mask) == (v \div mask) % 2 = 1
\* v | mask for a one-bit mask.
SetBit(v, mask) == IF HasBit(v, mask) THEN v ELSE v + mask
\* v & !mask for a one-bit mask.
ClearBit(v, mask) == IF HasBit(v, mask) THEN v - mask ELSE v

RECURSIVE BitOp(_, _, _, _)
\* Bitwise combination of two naturals over n bits; t is the truth table
\* <<f(0,0), f(0,1), f(1,0), f(1,1)>>.
BitOp(t, v, w, n) == IF n = 0 THEN 0 ELSE t[2 * (v % 2) + (w % 2) + 1] + 2 * BitOp(t, v \div 2, w \div 2, n - 1)

And(v, w) == BitOp(<<0, 0, 0, 1>>, v, w, 16)
Or(v, w) == BitOp(<<0, 1, 1, 1>>, v, w, 16)
Xor(v, w) == BitOp(<<0, 1, 1, 0>>, v, w, 16)

\* u8 and u16 wrapping arithmetic.
Wrap8(v) == v % 256
Wrap16(v) == v % 65536
\* addr & 0xFF00
Page(addr) == addr - (addr % 256)
\* (hi << 8) | lo
Word(lo, hi) == hi * 256 + lo

\* Sparse memory: cells never written hold 0.
Peek(mem, i) == IF i \in DOMAIN mem THEN mem[i] ELSE 0
Poke(mem, i, v) == [j \in (DOMAIN mem) \cup {i} |-> IF j = i THEN v ELSE mem[j]]
EmptyMem == [j \in {} |-> 0]

\* ------------------------------------------------------------ constants

FLAG_CARRY == 1
FLAG_ZERO == 2
FLAG_INTERRUPT_DISABLE == 4
FLAG_DECIMAL == 8
FLAG_BREAK == 16
FLAG_UNUSED == 32
FLAG_OVERFLOW == 64
FLAG_NEGATIVE == 128

\* PPU dots per scanline and the scanline that wraps to the pre-render line.
DotsPerScanline == 341
WrapScanline == 261
VblankScanline == 241
\* Dots in one frame: 341 x 262.
DotsPerFrame == DotsPerScanline * (WrapScanline + 1)

FRAME_4STEP_RESET == 29830
FRAME_5STEP_RESET == 37282
DMC_RATE_TABLE == <<428, 380, 340, 320, 286, 254, 226, 214, 190, 160, 142, 128, 106, 84, 72, 54>>

\* ------------------------------------------------------------------ PPU

\* A variant of PPU::new that starts on scanline 0.
PpuNewVisible == [nametable |-> EmptyMem, palette |-> EmptyMem, cycle |-> 0, scanline |-> 0, nmi |-> FALSE, vblank |-> FALSE, frame_ready |-> FALSE, ctrl |-> 0, mask |-> 0, addr |-> 0, addr_latch |-> FALSE, scroll_x |-> 0, scroll_y |-> 0, scroll_latch |-> FALSE, oam |-> EmptyMem, oam_addr |-> 0, sprite_0_hit |-> FALSE, sprite_overflow |-> FALSE]

\* PPU::new.
PpuNew == [nametable |-> EmptyMem, palette |-> EmptyMem, cycle |-> 0, scanline |-> -1, nmi |-> FALSE, vblank |-> FALSE, frame_ready |-> FALSE, ctrl |-> 0, mask |-> 0, addr |-> 0, addr_latch |-> FALSE, scroll_x |-> 0, scroll_y |-> 0, scroll_latch |-> FALSE, oam |-> EmptyMem, oam_addr |-> 0, sprite_0_hit |-> FALSE, sprite_overflow |-> FALSE]

\* A variant of PPU::tick whose scanlines wrap one scanline late.
PpuTickLate(p) ==
  LET c1 == p.cycle + 1
      atVblank == p.scanline = VblankScanline /\ c1 = 1
      atPre == p.scanline = -1 /\ c1 = 1
      p1 == [p EXCEPT !.cycle = c1,
                      !.vblank = IF atPre THEN FALSE ELSE IF atVblank THEN TRUE ELSE @,
                      !.frame_ready = IF atVblank THEN TRUE ELSE @,
                      !.nmi = IF atVblank /\ HasBit(p.ctrl, 128) THEN TRUE ELSE @]
  IN IF c1 = DotsPerScanline
     THEN [p1 EXCEPT !.cycle = 0,
                     !.scanline = IF p.scanline + 1 = WrapScanline + 1 THEN -1 ELSE p.scanline + 1]
     ELSE p1

\* PPU::tick without its return value: one dot.
PpuTick(p) ==
  LET c1 == p.cycle + 1
      atVblank == p.scanline = VblankScanline /\ c1 = 1
      atPre == p.scanline = -1 /\ c1 = 1
      p1 == [p EXCEPT !.cycle = c1,
                      !.vblank = IF atPre THEN FALSE ELSE IF atVblank THEN TRUE ELSE @,
                      !.frame_ready = IF atVblank THEN TRUE ELSE @,
                      !.nmi = IF atVblank /\ HasBit(p.ctrl, 128) THEN TRUE ELSE @]
  IN IF c1 = DotsPerScanline
     THEN [p1 EXCEPT !.cycle = 0,
                     !.scanline = IF p.scanline + 1 = WrapScanline THEN -1 ELSE p.scanline + 1]
     ELSE p1

\* The return value of PPU::tick: the visible scanline that has just
\* completed, or -1 for None.
PpuTickCompleted(p) == IF p.cycle + 1 = DotsPerScanline /\ p.scanline >= 0 /\ p.scanline < 240 THEN p.scanline ELSE -1

\* Sprite evaluation of PPU::render_scanline: the OAM entries whose Y range
\* covers the scanline.
SpritesInRange(p, scanline) ==
  LET height == IF HasBit(p.ctrl, 32) THEN 16 ELSE 8
  IN {i \in 0..63 : scanline >= Peek(p.oam, 4 * i) /\ scanline < Peek(p.oam, 4 * i) + height}

\* One pass of the sprite evaluation loop of PPU::render_scanline, for OAM
\* entry i: an entry in range takes the next free slot of the eight, or
\* raises sprite overflow when none is free. A variant with nine slots
\* comes first.
SpriteEvalStepNine(p, scanline, i, e) ==
  LET y_lo == Peek(p.oam, 4 * i)
      y_hi == y_lo + (IF HasBit(p.ctrl, 32) THEN 16 ELSE 8)
  IN IF scanline >= y_lo /\ scanline < y_hi
     THEN (IF Len(e.slots) < 9 THEN [e EXCEPT !.slots = Append(@, i)] ELSE [e EXCEPT !.overflow = TRUE])
     ELSE e

SpriteEvalStep(p, scanline, i, e) ==
  LET y_lo == Peek(p.oam, 4 * i)
      y_hi == y_lo + (IF HasBit(p.ctrl, 32) THEN 16 ELSE 8)
  IN IF scanline >= y_lo /\ scanline < y_hi
     THEN (IF Len(e.slots) < 8 THEN [e EXCEPT !.slots = Append(@, i)] ELSE [e EXCEPT !.overflow = TRUE])
     ELSE e

RECURSIVE SpriteEval(_, _, _, _, _)
\* The passes lo..hi of that loop, in order, from e: slots lists the OAM
\* indices selected, overflow says whether the pass has raised the flag.
SpriteEval(p, scanline, lo, hi, e) ==
  IF lo = hi THEN SpriteEvalStep(p, scanline, lo, e)
  ELSE LET h == SpriteEval(p, scanline, lo, (lo + hi) \div 2, e)
       IN IF Len(h.slots) >= 0 THEN SpriteEval(p, scanline, ((lo + hi) \div 2) + 1, hi, h) ELSE h

\* The flags PPU::render_scanline leaves: sprite overflow from the sprite
\* evaluation; sprite-zero hit when sprites are shown, sprite 0 is among
\* the first eight in range, one of its pixels is not clipped by the left
\* column mask, and the pattern data make an opaque sprite pixel meet an
\* opaque background pixel there (chrHit, an input: the pattern data come
\* from the cartridge).
RenderScanline(p, scanline, chrHit) ==
  LET inRange == SpritesInRange(p, scanline)
  IN [p EXCEPT !.sprite_overflow = IF Cardinality(inRange) > 8 THEN TRUE ELSE @,
               !.sprite_0_hit = IF HasBit(p.mask, 16) /\ 0 \in inRange /\ (HasBit(p.mask, 4) \/ Peek(p.oam, 3) >= 1) /\ chrHit THEN TRUE ELSE @]

\* PPU::read_status: the byte returned.
ReadStatusValue(p) == (IF p.vblank THEN 128 ELSE 0) + (IF p.sprite_0_hit THEN 64 ELSE 0) + (IF p.sprite_overflow THEN 32 ELSE 0)

\* A variant of PPU::read_status that leaves the $2005 latch as it is.
ReadStatusKeepsLatch(p) == [p EXCEPT !.vblank = FALSE, !.nmi = FALSE, !.sprite_0_hit = FALSE, !.sprite_overflow = FALSE, !.addr_latch = FALSE]

\* PPU::read_status: the state left.
ReadStatus(p) == [p EXCEPT !.vblank = FALSE, !.nmi = FALSE, !.sprite_0_hit = FALSE, !.sprite_overflow = FALSE, !.addr_latch = FALSE, !.scroll_latch = FALSE]

\* PPU::write_ctrl, write_mask, write_oam_addr.
WriteCtrl(p, data) == [p EXCEPT !.ctrl = data]
WriteMask(p, data) == [p EXCEPT !.mask = data]
WriteOamAddr(p, data) == [p EXCEPT !.oam_addr = data]

\* PPU::read_oam_data and write_oam_data.
ReadOamData(p) == Peek(p.oam, p.oam_addr)
WriteOamData(p, data) == [p EXCEPT !.oam = Poke(p.oam, p.oam_addr, data), !.oam_addr = Wrap8(p.oam_addr + 1)]

\* PPU::write_addr.
WriteAddr(p, data) ==
  IF ~p.addr_latch
  THEN [p EXCEPT !.addr = data * 256, !.addr_latch = TRUE]
  ELSE [p EXCEPT !.addr = Or(p.addr, data), !.addr_latch = FALSE]

\* PPU::write_scroll.
WriteScroll(p, data) ==
  IF ~p.scroll_latch
  THEN [p EXCEPT !.scroll_x = data, !.scroll_latch = TRUE]
  ELSE [p EXCEPT !.scroll_y = data, !.scroll_latch = FALSE]

\* ------------------------------------------------------------------ APU

\* Dmc::default.
DmcDefault == [irq_enable |-> FALSE, loop_flag |-> FALSE, rate_index |-> 0, rate_timer |-> 0, output_level |-> 0, start_address |-> 0, sample_length |-> 0, current_address |-> 0, bytes_remaining |-> 0, sample_buffer |-> -1, shift_register |-> 0, bits_remaining |-> 0, silence |-> TRUE, enabled |-> FALSE, fetch_pending |-> FALSE, fetch_address |-> 0]

\* The length-counter and envelope part of Pulse and Noise (::default).
ChannelDefault == [enabled |-> FALSE, length_halt |-> FALSE, length_counter |-> 0,
                   volume |-> 0, envelope_start |-> FALSE, envelope_divider |-> 0, envelope_decay |-> 0]

\* The length-counter and linear-counter part of Triangle (::default).
TriangleDefault == [enabled |-> FALSE, length_halt |-> FALSE, length_counter |-> 0,
                    linear_load |-> 0, linear_counter |-> 0, linear_reload |-> FALSE]

\* APU::new. sample_buffer None is -1.
ApuNew == [pulse1 |-> ChannelDefault, pulse2 |-> ChannelDefault, triangle |-> TriangleDefault, noise |-> ChannelDefault, dmc |-> DmcDefault, status |-> 0, frame_irq_inhibit |-> FALSE, frame_4step |-> TRUE, frame_cycle |-> 0]

\* Dmc::write_4010 .. write_4013; write_4010 also clears the DMC IRQ bit
\* of the APU status when IRQ is disabled.
DmcWrite4010(a, data) ==
  [a EXCEPT !.dmc.irq_enable = HasBit(data, 128),
            !.status = IF HasBit(data, 128) THEN @ ELSE ClearBit(@, 128),
            !.dmc.loop_flag = HasBit(data, 64),
            !.dmc.rate_index = data % 16]
DmcWrite4011(a, data) == [a EXCEPT !.dmc.output_level = data % 128]
DmcWrite4012(a, data) == [a EXCEPT !.dmc.start_address = 49152 + data * 64]
DmcWrite4013(a, data) == [a EXCEPT !.dmc.sample_length = data * 16 + 1]

\* A variant of Dmc::set_enabled that leaves a pending request standing
\* when it disables the channel.
DmcSetEnabledKeep(d, enabled) ==
  IF ~enabled
  THEN [d EXCEPT !.enabled = FALSE]
  ELSE IF d.bytes_remaining = 0
       THEN LET pending == d.sample_buffer = -1 /\ d.sample_length > 0
            IN [d EXCEPT !.enabled = TRUE,
                         !.current_address = d.start_address,
                         !.bytes_remaining = d.sample_length,
                         !.fetch_pending = pending,
                         !.fetch_address = IF pending THEN d.start_address ELSE @]
       ELSE [d EXCEPT !.enabled = TRUE]

\* Dmc::set_enabled.
DmcSetEnabled(d, enabled) ==
  IF ~enabled
  THEN [d EXCEPT !.enabled = FALSE, !.fetch_pending = FALSE]
  ELSE IF d.bytes_remaining = 0
       THEN LET pending == d.sample_buffer = -1 /\ d.sample_length > 0
            IN [d EXCEPT !.enabled = TRUE,
                         !.current_address = d.start_address,
                         !.bytes_remaining = d.sample_length,
                         !.fetch_pending = pending,
                         !.fetch_address = IF pending THEN d.start_address ELSE @]
       ELSE [d EXCEPT !.enabled = TRUE]

\* A variant of Dmc::feed_byte whose address wraps from $FFFF to $0000.
DmcFeedByteNoWrap(a, byte) ==
  LET d == a.dmc
      next == Wrap16(d.current_address + 1)
      left == IF d.bytes_remaining > 0 THEN d.bytes_remaining - 1 ELSE d.bytes_remaining
      restart == left = 0 /\ d.loop_flag
  IN [a EXCEPT !.dmc.fetch_pending = FALSE,
               !.dmc.sample_buffer = byte,
               !.dmc.current_address = IF restart THEN d.start_address ELSE next,
               !.dmc.bytes_remaining = IF restart THEN d.sample_length ELSE left,
               !.status = IF left = 0 /\ ~d.loop_flag /\ d.irq_enable THEN SetBit(@, 128) ELSE @]

\* Dmc::feed_byte, with the status byte it may raise the DMC IRQ in.
DmcFeedByte(a, byte) ==
  LET d == a.dmc
      next == IF Wrap16(d.current_address + 1) = 0 THEN 32768 ELSE Wrap16(d.current_address + 1)
      left == IF d.bytes_remaining > 0 THEN d.bytes_remaining - 1 ELSE d.bytes_remaining
      restart == left = 0 /\ d.loop_flag
  IN [a EXCEPT !.dmc.fetch_pending = FALSE,
               !.dmc.sample_buffer = byte,
               !.dmc.current_address = IF restart THEN d.start_address ELSE next,
               !.dmc.bytes_remaining = IF restart THEN d.sample_length ELSE left,
               !.status = IF left = 0 /\ ~d.loop_flag /\ d.irq_enable THEN SetBit(@, 128) ELSE @]

\* Dmc::tick: one CPU cycle of the DMC.
DmcTick(d) ==
  IF ~d.enabled THEN d
  ELSE IF d.rate_timer > 0 THEN [d EXCEPT !.rate_timer = @ - 1]
  ELSE LET period == DMC_RATE_TABLE[d.rate_index + 1]
           level == IF d.silence THEN d.output_level
                    ELSE IF d.shift_register % 2 # 0
                         THEN (IF d.output_level <= 125 THEN d.output_level + 2 ELSE d.output_level)
                         ELSE (IF d.output_level >= 2 THEN d.output_level - 2 ELSE d.output_level)
           bits == IF d.bits_remaining > 0 THEN d.bits_remaining - 1 ELSE d.bits_remaining
           d1 == [d EXCEPT !.rate_timer = IF period >= 1 THEN period - 1 ELSE 0,
                           !.output_level = level,
                           !.shift_register = @ \div 2,
                           !.bits_remaining = bits]
       IN IF bits # 0 THEN d1
          ELSE LET d2 == IF d1.sample_buffer # -1
                         THEN [d1 EXCEPT !.bits_remaining = 8, !.shift_register = d1.sample_buffer, !.silence = FALSE, !.sample_buffer = -1]
                         ELSE [d1 EXCEPT !.bits_remaining = 8, !.silence = TRUE]
               IN IF d2.bytes_remaining > 0
                  THEN [d2 EXCEPT !.fetch_pending = TRUE, !.fetch_address = d2.current_address]
                  ELSE d2

\* clock_length of one channel.
ClockLength(c) == IF ~c.length_halt /\ c.length_counter > 0 THEN [c EXCEPT !.length_counter = @ - 1] ELSE c

\* APU::clock_half_frame, as far as the length counters go.
ClockHalfFrame(a) == [a EXCEPT !.pulse1 = ClockLength(@), !.pulse2 = ClockLength(@), !.triangle = ClockLength(@), !.noise = ClockLength(@)]

\* Pulse::clock_envelope and Noise::clock_envelope.
ClockEnvelope(c) ==
  IF c.envelope_start THEN [c EXCEPT !.envelope_decay = 15, !.envelope_divider = c.volume, !.envelope_start = FALSE]
  ELSE IF c.envelope_divider > 0 THEN [c EXCEPT !.envelope_divider = @ - 1]
  ELSE [c EXCEPT !.envelope_divider = c.volume,
                 !.envelope_decay = IF @ > 0 THEN @ - 1 ELSE IF c.length_halt THEN 15 ELSE @]

\* Triangle::clock_linear.
ClockLinear(t) ==
  [t EXCEPT !.linear_counter = IF t.linear_reload THEN t.linear_load ELSE IF @ > 0 THEN @ - 1 ELSE @,
            !.linear_reload = IF t.length_halt THEN @ ELSE FALSE]

\* APU::clock_quarter_frame.
ClockQuarterFrame(a) == [a EXCEPT !.pulse1 = ClockEnvelope(@), !.pulse2 = ClockEnvelope(@), !.noise = ClockEnvelope(@), !.triangle = ClockLinear(@)]

\* One iteration of the loop of APU::tick: the frame counter, then the DMC.
\* The channel timers and the mixer are not modelled.
ApuTick1(a) ==
  LET fc == a.frame_cycle + 1
      quarter == IF a.frame_4step THEN fc \in {7457, 14913, 22371} ELSE fc \in {7457, 14913, 22371, 37281}
      half == IF a.frame_4step THEN fc \in {14913, 29829} ELSE fc \in {14913, 37281}
      irq == a.frame_4step /\ fc = 29829 /\ ~a.frame_irq_inhibit
      wrap == fc >= (IF a.frame_4step THEN FRAME_4STEP_RESET ELSE FRAME_5STEP_RESET)
      a0 == IF quarter THEN ClockQuarterFrame(a) ELSE a
      a1 == IF half THEN ClockHalfFrame(a0) ELSE a0
  IN [a1 EXCEPT !.frame_cycle = IF wrap THEN 0 ELSE fc,
                !.status = IF irq THEN SetBit(@, 64) ELSE @,
                !.dmc = DmcTick(@)]

RECURSIVE ApuTick(_, _)
\* APU::tick(cycles): the loop body ApuTick1, cycles times, taken as the
\* first cycles \div 2 passes and then the rest.
ApuTick(a, cycles) ==
  IF cycles = 0 THEN a
  ELSE IF cycles = 1 THEN ApuTick1(a)
  ELSE LET h == ApuTick(a, cycles \div 2)
       IN IF h.frame_cycle >= 0 THEN ApuTick(h, cycles - (cycles \div 2)) ELSE h

\* APU::write for $4010-$4013, $4015 and $4017.
ApuWrite4015(a, data) ==
  LET off(c, bit) == [c EXCEPT !.enabled = HasBit(data, bit), !.length_counter = IF HasBit(data, bit) THEN @ ELSE 0]
  IN [a EXCEPT !.pulse1 = off(@, 1), !.pulse2 = off(@, 2), !.triangle = off(@, 4), !.noise = off(@, 8),
               !.dmc = DmcSetEnabled(@, HasBit(data, 16))]

ApuWrite4017(a, data) ==
  LET a1 == [a EXCEPT !.frame_4step = ~HasBit(data, 128),
                      !.frame_irq_inhibit = HasBit(data, 64),
                      !.frame_cycle = 0,
                      !.status = IF HasBit(data, 64) THEN ClearBit(@, 64) ELSE @]
  IN IF HasBit(data, 128) THEN ClockHalfFrame(ClockQuarterFrame(a1)) ELSE a1

\* Pulse::output, Triangle::output and Noise::output return 0 for a channel
\* that is disabled or whose length counter is 0, whatever its timer,
\* sequencer and envelope hold.
ChannelSilent(c) == ~c.enabled \/ c.length_counter = 0

\* APU::read_status: the byte returned and the state left.
ApuReadStatusValue(a) ==
  (a.status - (a.status % 64))
  + (IF a.pulse1.length_counter > 0 THEN 1 ELSE 0) + (IF a.pulse2.length_counter > 0 THEN 2 ELSE 0)
  + (IF a.triangle.length_counter > 0 THEN 4 ELSE 0) + (IF a.noise.length_counter > 0 THEN 8 ELSE 0)
  + (IF a.dmc.bytes_remaining > 0 \/ a.dmc.sample_buffer # -1 THEN 16 ELSE 0)
ApuReadStatus(a) == [a EXCEPT !.status = @ % 64]

\* ----------------------------------------------------------- controller

\* Controller::read: the byte returned and the state left.
ControllerReadValue(c) == (c.shift % 2) + 64
\* A variant of Controller::read that does not shift.
ControllerReadHolds(c) == c
ControllerRead(c) == [c EXCEPT !.shift = @ \div 2]
\* Controller::write.
ControllerWrite(c, data) == IF data % 2 # 0 THEN [c EXCEPT !.shift = c.state] ELSE c

\* ------------------------------------------------------------ cartridge

LENGTH_TABLE == <<10, 254, 20, 2, 40, 4, 80, 6, 160, 8, 60, 10, 14, 12, 26, 14, 12, 16, 24, 18, 48, 20, 96, 22, 192, 24, 72, 26, 16, 28, 32, 30>>

\* The vector bytes of the modelled image: NMI at $9000, reset at $8000,
\* IRQ/BRK at $A000.
PrgVector(addr) == CASE addr = 65531 -> 144 [] addr = 65533 -> 128 [] addr = 65535 -> 160 [] OTHER -> 0

\* Mapper0::read, PRG arm: a vector byte of the image, or the input byte
\* rom for any other address.
PrgRead(addr, rom) == IF addr >= 65530 THEN PrgVector(addr) ELSE rom

\* Mapper0::read, CHR arm: what was written there, or image data (rom).
ChrRead(c, addr, rom) == IF addr \in DOMAIN c.chr THEN c.chr[addr] ELSE rom

\* Mapper0::write: CHR is stored when the CHR buffer is 8 KiB long; PRG
\* ROM ignores writes.
MapperWrite(c, addr, data) == IF addr < 8192 /\ c.chr_len = 8192 THEN [c EXCEPT !.chr = Poke(@, addr, data)] ELSE c

\* Mapper1::new for an image of `banks` 16 KiB PRG banks.
Mapper1New(banks) == [kind |-> "mmc1", banks |-> banks, shift_reg |-> 0, shift_count |-> 0, control |-> 12, prg_bank |-> 0]

\* Mapper1::prg_bank_mode.
prg_bank_mode(c) == (c.control \div 4) % 4

\* Mapper1::read, PRG arm: the index into prg_rom of the byte returned;
\* an index past the end of prg_rom is a panic.
Mapper1ReadIndex(c, addr) ==
  CASE prg_bank_mode(c) \in {0, 1} -> ((c.prg_bank - (c.prg_bank % 2)) * 16384 * 2) + (addr - 32768)
    [] prg_bank_mode(c) = 2 -> IF addr < 49152 THEN addr - 32768 ELSE (c.prg_bank * 16384) + (addr - 49152)
    [] prg_bank_mode(c) = 3 -> IF addr < 49152 THEN (c.prg_bank * 16384) + (addr - 32768) ELSE ((c.banks - 1) * 16384) + (addr - 49152)

\* The end of Mapper1::write, once five bits are in: latch by address and
\* clear the shift register.
Mapper1Latch(c, addr) ==
  [c EXCEPT !.control = IF addr >= 32768 /\ addr <= 40959 THEN c.shift_reg % 32 ELSE @,
            !.prg_bank = IF addr >= 57344 THEN c.shift_reg % 16 ELSE @,
            !.shift_reg = 0, !.shift_count = 0]

\* A variant of Mapper1::write that shifts the bits in from the low end
\* (first bit written ends up highest).
Mapper1WriteMsbFirst(c, addr, data) ==
  IF data >= 128 THEN [c EXCEPT !.shift_reg = 0, !.shift_count = 0, !.control = Or(@, 12)]
  ELSE IF c.shift_count + 1 < 5
       THEN [c EXCEPT !.shift_reg = ((@ * 2) % 32) + (data % 2), !.shift_count = @ + 1]
       ELSE Mapper1Latch([c EXCEPT !.shift_reg = ((@ * 2) % 32) + (data % 2), !.shift_count = @ + 1], addr)

\* Mapper1::write. The address range is not tested before the shift: every
\* write the cartridge receives, a PPU write of pattern memory included,
\* feeds the shift register.
Mapper1Write(c, addr, data) ==
  IF data >= 128 THEN [c EXCEPT !.shift_reg = 0, !.shift_count = 0, !.control = Or(@, 12)]
  ELSE IF c.shift_count + 1 < 5
       THEN [c EXCEPT !.shift_reg = Or(@ \div 2, (data % 2) * 16), !.shift_count = @ + 1]
       ELSE Mapper1Latch([c EXCEPT !.shift_reg = Or(@ \div 2, (data % 2) * 16), !.shift_count = @ + 1], addr)

\* Mapper4::new (the PRG and CHR images aside).
Mapper4New ==
  [kind |-> "mmc3", prg_ram |-> EmptyMem, bank_select |-> 0, regs |-> <<0, 0, 0, 0, 0, 0, 0, 0>>, mirroring |-> "Vertical",
   prg_ram_enable |-> TRUE, prg_ram_write_protect |-> FALSE,
   irq_latch |-> 0, irq_counter |-> 0, irq_reload_pending |-> FALSE, irq_enabled |-> FALSE, irq_pending |-> FALSE, last_chr_a12 |-> FALSE]

\* The flag Mapper4::clock_irq leaves, given the counter it has set.
Mapper4RaiseIrq(c) == IF c.irq_counter = 0 /\ c.irq_enabled THEN [c EXCEPT !.irq_pending = TRUE] ELSE c

\* A variant of Mapper4::clock_irq whose reload counts as a decrement too:
\* it loads the latch less one.
Mapper4ClockIrqShort(c) ==
  IF c.irq_counter = 0 \/ c.irq_reload_pending
  THEN Mapper4RaiseIrq([c EXCEPT !.irq_counter = IF c.irq_latch = 0 THEN 0 ELSE c.irq_latch - 1, !.irq_reload_pending = FALSE])
  ELSE Mapper4RaiseIrq([c EXCEPT !.irq_counter = @ - 1])

\* Mapper4::clock_irq.
Mapper4ClockIrq(c) ==
  IF c.irq_counter = 0 \/ c.irq_reload_pending
  THEN Mapper4RaiseIrq([c EXCEPT !.irq_counter = c.irq_latch, !.irq_reload_pending = FALSE])
  ELSE Mapper4RaiseIrq([c EXCEPT !.irq_counter = @ - 1])

\* A variant of Mapper4::on_chr_access that clocks the counter on every
\* access with A12 set, not only on a rising edge.
Mapper4OnChrAccessLevel(c, addr) ==
  [(IF HasBit(addr, 4096) THEN Mapper4ClockIrq(c) ELSE c) EXCEPT !.last_chr_a12 = HasBit(addr, 4096)]

\* Mapper4::on_chr_access.
Mapper4OnChrAccess(c, addr) ==
  [(IF ~c.last_chr_a12 /\ HasBit(addr, 4096) THEN Mapper4ClockIrq(c) ELSE c) EXCEPT !.last_chr_a12 = HasBit(addr, 4096)]

\* Mapper4::poll_irq: the value returned is c.irq_pending; the state left.
Mapper4PollIrq(c) == [c EXCEPT !.irq_pending = FALSE]

\* Mapper4::write.
Mapper4Write(c, addr, data) ==
  CASE addr >= 24576 /\ addr < 32768 -> [c EXCEPT !.prg_ram = Poke(@, addr - 24576, data)]
    [] addr >= 32768 /\ addr < 40960 ->
         IF addr % 2 = 0 THEN [c EXCEPT !.bank_select = data] ELSE [c EXCEPT !.regs[(c.bank_select % 8) + 1] = data]
    [] addr >= 40960 /\ addr < 49152 ->
         IF addr % 2 = 0 THEN [c EXCEPT !.mirroring = IF data % 2 # 0 THEN "Vertical" ELSE "Horizontal"]
         ELSE [c EXCEPT !.prg_ram_enable = data >= 128, !.prg_ram_write_protect = HasBit(data, 64)]
    [] addr >= 49152 /\ addr < 57344 ->
         IF addr % 2 = 0 THEN [c EXCEPT !.irq_latch = data] ELSE [c EXCEPT !.irq_reload_pending = TRUE, !.irq_counter = 0]
    [] addr >= 57344 ->
         IF addr % 2 = 0 THEN [c EXCEPT !.irq_enabled = FALSE, !.irq_pending = FALSE] ELSE [c EXCEPT !.irq_enabled = TRUE]
    [] OTHER -> c

\* Mapper1::mirroring: control bits 0-1.
Mapper1Mirroring(c) ==
  CASE c.control % 4 = 0 -> "OneScreenLower"
    [] c.control % 4 = 1 -> "OneScreenUpper"
    [] c.control % 4 = 2 -> "Vertical"
    [] c.control % 4 = 3 -> "Horizontal"

\* The mapper a cartridge record stands for: the records of Mapper1 and
\* Mapper4 carry a kind, the record of Mapper0 does not.
MapperKind(c) == IF "kind" \in DOMAIN c THEN c.kind ELSE "nrom"

\* Cartridge::mirroring: the mode the mapper reports (Mapper0 and Mapper4
\* keep it in a field, Mapper1 derives it from the control register).
Mirroring(c) == IF MapperKind(c) = "mmc1" THEN Mapper1Mirroring(c) ELSE c.mirroring

\* Cartridge::write: mapper.write(addr, data).
CartWrite(c, addr, data) ==
  CASE MapperKind(c) = "mmc1" -> Mapper1Write(c, addr, data)
    [] MapperKind(c) = "mmc3" -> Mapper4Write(c, addr, data)
    [] OTHER -> MapperWrite(c, addr, data)

\* PPU::palette_index.
palette_index(addr) == LET i == addr % 32 IN IF i \in {16, 20, 24, 28} THEN 0 ELSE i

\* A variant of PPU::map_nametable_addr with the two arrangements exchanged:
\* vertical mirroring pairs the tables as horizontal mirroring should.
map_nametable_addrSwapped(addr, mirroring) ==
  LET a == (addr - 8192) % 4096
      table == a \div 1024
      offset == a % 1024
  IN CASE mirroring = "Vertical" -> IF table \in {0, 1} THEN offset ELSE offset + 1024
       [] mirroring = "Horizontal" -> IF table \in {0, 2} THEN offset ELSE offset + 1024
       [] mirroring = "OneScreenLower" -> offset
       [] mirroring = "OneScreenUpper" -> offset + 1024

\* PPU::map_nametable_addr.
map_nametable_addr(addr, mirroring) ==
  LET a == (addr - 8192) % 4096
      table == a \div 1024
      offset == a % 1024
  IN CASE mirroring = "Vertical" -> IF table \in {0, 2} THEN offset ELSE offset + 1024
       [] mirroring = "Horizontal" -> IF table \in {0, 1} THEN offset ELSE offset + 1024
       [] mirroring = "OneScreenLower" -> offset
       [] mirroring = "OneScreenUpper" -> offset + 1024

\* The address increment of PPUDATA accesses: 32 if PPUCTRL bit 2, else 1.
DataIncrement(p) == IF HasBit(p.ctrl, 4) THEN 32 ELSE 1

\* PPU::read_data: the byte returned.
ReadDataValue(p, c, rom) ==
  LET addr == p.addr % 16384
  IN CASE addr < 8192 -> ChrRead(c, addr, rom)
       [] addr >= 8192 /\ addr < 12288 -> Peek(p.nametable, map_nametable_addr(addr, Mirroring(c)))
       [] addr >= 12288 /\ addr < 16128 -> Peek(p.nametable, map_nametable_addr(addr - 4096, Mirroring(c)))
       [] addr >= 16128 -> Peek(p.palette, palette_index(addr))

\* PPU::read_data: the PPU state left.
ReadData(p) == [p EXCEPT !.addr = Wrap16(@ + DataIncrement(p))]

\* PPU::write_data: the PPU state left.
WriteData(p, c, data) ==
  LET addr == p.addr % 16384
      p1 == CASE addr < 8192 -> p
              [] addr >= 8192 /\ addr < 12288 -> [p EXCEPT !.nametable = Poke(@, map_nametable_addr(addr, Mirroring(c)), data)]
              [] addr >= 12288 /\ addr < 16128 -> [p EXCEPT !.nametable = Poke(@, map_nametable_addr(addr - 4096, Mirroring(c)), data)]
              [] addr >= 16128 -> [p EXCEPT !.palette = Poke(@, palette_index(addr), data % 64)]
  IN [p1 EXCEPT !.addr = Wrap16(@ + DataIncrement(p))]

\* PPU::write_data: the cartridge state left (cart.write for a CHR address).
WriteDataCart(p, c, data) == IF p.addr % 16384 < 8192 THEN CartWrite(c, p.addr % 16384, data) ELSE c

\* PPU::oam_dma.
OamDma(p, mem, page) ==
  LET start == (page * 256) % 2048
  IN [p EXCEPT !.oam = [i \in 0..255 |-> Peek(mem, (start + i) % 2048)]]

\* ------------------------------------------------------------------ APU writes

\* write_4000 / write_400c (length halt is bit 5) and write_4008 (bit 7):
\* the length halt flag.
ChannelWriteHalt(c, data, bit) == [c EXCEPT !.length_halt = HasBit(data, bit)]
\* write_4000 / write_400c: the length halt flag, the volume, and the
\* envelope restart.
EnvelopeWrite(c, data) == [ChannelWriteHalt(c, data, 32) EXCEPT !.volume = data % 16, !.envelope_start = TRUE]
\* A variant of the length counter load without `if self.enabled`.
ChannelWriteLengthAlways(c, data) == [c EXCEPT !.length_counter = LENGTH_TABLE[(data \div 8) + 1]]
\* write_4003 / write_400b / write_400f: the length counter load.
ChannelWriteLength(c, data) == IF c.enabled THEN [c EXCEPT !.length_counter = LENGTH_TABLE[(data \div 8) + 1]] ELSE c

\* APU::write.
ApuWrite(a, addr, data) ==
  CASE addr = 16384 -> [a EXCEPT !.pulse1 = EnvelopeWrite(@, data)]
    [] addr = 16387 -> [a EXCEPT !.pulse1 = [ChannelWriteLength(@, data) EXCEPT !.envelope_start = TRUE]]
    [] addr = 16388 -> [a EXCEPT !.pulse2 = EnvelopeWrite(@, data)]
    [] addr = 16391 -> [a EXCEPT !.pulse2 = [ChannelWriteLength(@, data) EXCEPT !.envelope_start = TRUE]]
    [] addr = 16392 -> [a EXCEPT !.triangle = [ChannelWriteHalt(@, data, 128) EXCEPT !.linear_load = data % 128]]
    [] addr = 16395 -> [a EXCEPT !.triangle = [ChannelWriteLength(@, data) EXCEPT !.linear_reload = TRUE]]
    [] addr = 16396 -> [a EXCEPT !.noise = EnvelopeWrite(@, data)]
    [] addr = 16399 -> [a EXCEPT !.noise = [ChannelWriteLength(@, data) EXCEPT !.envelope_start = TRUE]]
    [] addr = 16400 -> DmcWrite4010(a, data)
    [] addr = 16401 -> DmcWrite4011(a, data)
    [] addr = 16402 -> DmcWrite4012(a, data)
    [] addr = 16403 -> DmcWrite4013(a, data)
    [] addr = 16405 -> ApuWrite4015(a, data)
    [] addr = 16407 -> ApuWrite4017(a, data)
    [] OTHER -> a

\* ------------------------------------------------------------------ bus

\* The register a PPU-range address selects: addr & 0x2007.
PpuReg(addr) == 8192 + (addr % 8)

\* NesBus::read: the byte returned; rom is the byte the cartridge holds at
\* the address read (PRG or, through $2007, CHR).
BusReadValue(m, addr, rom) ==
  CASE addr < 8192 -> Peek(m.ram, addr % 2048)
    [] addr >= 8192 /\ addr < 16384 ->
         (CASE PpuReg(addr) = 8194 -> ReadStatusValue(m.ppu)
            [] PpuReg(addr) = 8196 -> ReadOamData(m.ppu)
            [] PpuReg(addr) = 8199 -> ReadDataValue(m.ppu, m.cart, rom)
            [] OTHER -> 64)
    [] addr = 16405 -> ApuReadStatusValue(m.apu)
    [] addr = 16406 -> ControllerReadValue(m.controller)
    [] addr >= 16384 /\ addr < 32768 /\ addr \notin {16405, 16406} -> 64
    [] addr >= 32768 -> PrgRead(addr, rom)

\* NesBus::read: the machine left.
BusRead(m, addr) ==
  CASE addr >= 8192 /\ addr < 16384 /\ PpuReg(addr) = 8194 -> [m EXCEPT !.ppu = ReadStatus(@)]
    [] addr >= 8192 /\ addr < 16384 /\ PpuReg(addr) = 8199 -> [m EXCEPT !.ppu = ReadData(@)]
    [] addr = 16405 -> [m EXCEPT !.apu = ApuReadStatus(@)]
    [] addr = 16406 -> [m EXCEPT !.controller = ControllerRead(@)]
    [] OTHER -> m

\* NesBus::write.
BusWrite(m, addr, data) ==
  CASE addr < 8192 -> [m EXCEPT !.ram = Poke(@, addr % 2048, data)]
    [] addr >= 8192 /\ addr < 16384 ->
         (CASE PpuReg(addr) = 8192 -> [m EXCEPT !.ppu = WriteCtrl(@, data)]
            [] PpuReg(addr) = 8193 -> [m EXCEPT !.ppu = WriteMask(@, data)]
            [] PpuReg(addr) = 8195 -> [m EXCEPT !.ppu = WriteOamAddr(@, data)]
            [] PpuReg(addr) = 8196 -> [m EXCEPT !.ppu = WriteOamData(@, data)]
            [] PpuReg(addr) = 8197 -> [m EXCEPT !.ppu = WriteScroll(@, data)]
            [] PpuReg(addr) = 8198 -> [m EXCEPT !.ppu = WriteAddr(@, data)]
            [] PpuReg(addr) = 8199 -> [m EXCEPT !.ppu = WriteData(@, m.cart, data), !.cart = WriteDataCart(m.ppu, @, data)]
            [] OTHER -> m)
    [] addr >= 16384 /\ addr <= 16403 -> [m EXCEPT !.apu = ApuWrite(@, addr, data)]
    [] addr = 16404 -> [m EXCEPT !.ppu = OamDma(@, m.ram, data)]
    [] addr \in {16405, 16407} -> [m EXCEPT !.apu = ApuWrite(@, addr, data)]
    [] addr = 16406 -> [m EXCEPT !.controller = ControllerWrite(@, data)]
    [] addr >= 16408 /\ addr < 32768 -> m
    [] addr >= 32768 -> [m EXCEPT !.cart = CartWrite(@, addr, data)]

\* One pass of the PPU loop of NesBus::tick: a dot, and the rendering of
\* the visible scanline it completes; r.obs counts the dots and the NMI
\* edges latched.
PpuDot(r, chrHit) ==
  LET done == PpuTickCompleted(r.ppu)
      p1 == PpuTick(r.ppu)
      p2 == IF done >= 0 THEN RenderScanline(p1, done, chrHit) ELSE p1
      edge == r.ppu.scanline = VblankScanline /\ p1.cycle = 1 /\ HasBit(r.ppu.ctrl, 128)
      o1 == [r.obs EXCEPT !.ppu_dots = @ + 1,
                          !.vblanks = IF r.ppu.scanline = VblankScanline /\ p1.cycle = 1 THEN @ + 1 ELSE @,
                          !.nmi_edges = IF edge THEN @ + 1 ELSE @]
  IN [ppu |-> p2, obs |-> o1]

RECURSIVE PpuTicks(_, _, _, _)
\* The PPU loop of NesBus::tick: n dots from PPU p and history record o.
\* The n passes are taken as the first n \div 2 and then the rest, and the
\* dot count of the first part is read before the rest starts, so that the
\* evaluation nests no deeper than the logarithm of n.
PpuTicks(p, o, n, chrHit) ==
  IF n = 0 THEN [ppu |-> p, obs |-> o]
  ELSE IF n = 1 THEN PpuDot([ppu |-> p, obs |-> o], chrHit)
  ELSE LET r == PpuTicks(p, o, n \div 2, chrHit)
       IN IF r.obs.ppu_dots >= o.ppu_dots THEN PpuTicks(r.ppu, r.obs, n - (n \div 2), chrHit) ELSE r

\* NesBus::tick(cycles).
BusTick(m, cycles, chrHit) ==
  LET r == PpuTicks(m.ppu, [m.obs EXCEPT !.apu_cycles = @ + cycles], cycles * 3, chrHit)
  IN [m EXCEPT !.apu = ApuTick(@, cycles), !.ppu = r.ppu, !.obs = r.obs]

\* A variant of NesBus::poll_nmi that leaves the NMI line up.
PollNmiKeeps(m) == m

\* NesBus::poll_nmi: the value returned is m.ppu.nmi; the machine left.
PollNmi(m) == [m EXCEPT !.ppu.nmi = FALSE]

\* ------------------------------------------------------------------ CPU

\* execute_opcode: the handler each opcode byte dispatches to; the opcodes
\* that fall to the `_ => panic!` arm are "unimplemented".
Handler == <<
  "brk", "ora_indirect_x", "jam", "slo_indirect_x", "nop_zeropage", "ora_zeropage", "asl_zeropage", "slo_zeropage", "php", "ora_immediate", "asl_accumulator", "unimplemented", "nop_absolute", "ora_absolute", "asl_absolute", "slo_absolute",
  "bpl", "ora_indirect_y", "jam", "slo_indirect_y", "nop_zeropage_x", "ora_zeropage_x", "asl_zeropage_x", "slo_zeropage_x", "clc", "ora_absolute_y", "nop_implied", "slo_absolute_y", "nop_absolute_x", "ora_absolute_x", "asl_absolute_x", "slo_absolute_x",
  "jsr", "and_indirect_x", "jam", "rla_indirect_x", "bit_zeropage", "and_zeropage", "rol_zeropage", "rla_zeropage", "plp", "and_immediate", "rol_accumulator", "unimplemented", "bit_absolute", "and_absolute", "rol_absolute", "rla_absolute",
  "bmi", "and_indirect_y", "jam", "rla_indirect_y", "nop_zeropage_x", "and_zeropage_x", "rol_zeropage_x", "rla_zeropage_x", "sec", "and_absolute_y", "nop_implied", "rla_absolute_y", "nop_absolute_x", "and_absolute_x", "rol_absolute_x", "rla_absolute_x",
  "rti", "eor_indirect_x", "jam", "sre_indirect_x", "nop_zeropage", "eor_zeropage", "lsr_zeropage", "sre_zeropage", "pha", "eor_immediate", "lsr_accumulator", "unimplemented", "jmp_absolute", "eor_absolute", "lsr_absolute", "sre_absolute",
  "bvc", "eor_indirect_y", "jam", "sre_indirect_y", "nop_zeropage_x", "eor_zeropage_x", "lsr_zeropage_x", "sre_zeropage_x", "cli", "eor_absolute_y", "nop_implied", "sre_absolute_y", "nop_absolute_x", "eor_absolute_x", "lsr_absolute_x", "sre_absolute_x",
  "rts", "adc_indirect_x", "jam", "rra_indirect_x", "nop_zeropage", "adc_zeropage", "ror_zeropage", "rra_zeropage", "pla", "adc_immediate", "ror_accumulator", "unimplemented", "jmp_indirect", "adc_absolute", "ror_absolute", "rra_absolute",
  "bvs", "adc_indirect_y", "jam", "rra_indirect_y", "nop_zeropage_x", "adc_zeropage_x", "ror_zeropage_x", "rra_zeropage_x", "sei", "adc_absolute_y", "nop_implied", "rra_absolute_y", "nop_absolute_x", "adc_absolute_x", "ror_absolute_x", "rra_absolute_x",
  "nop_immediate", "sta_indirect_x", "nop_immediate", "sax_indirect_x", "sty_zeropage", "sta_zero_page", "stx_zero_page", "sax_zeropage", "dey", "nop_immediate", "txa", "unimplemented", "sty_absolute", "sta_absolute", "stx_absolute", "sax_absolute",
  "bcc", "sta_indirect_y", "jam", "unimplemented", "sty_zeropage_x", "sta_zeropage_x", "stx_zeropage_y", "sax_zeropage_y", "tya", "sta_absolute_y", "txs", "unimplemented", "unimplemented", "sta_absolute_x", "unimplemented", "unimplemented",
  "ldy_immediate", "lda_indirect_x", "ldx_immediate", "lax_indirect_x", "ldy_zeropage", "lda_zero_page", "ldx_zeropage", "lax_zeropage", "tay", "lda_immediate", "tax", "unimplemented", "ldy_absolute", "lda_absolute", "ldx_absolute", "lax_absolute",
  "bcs", "lda_indirect_y", "jam", "lax_indirect_y", "ldy_zeropage_x", "lda_zeropage_x", "ldx_zeropage_y", "lax_zeropage_y", "clv", "lda_absolute_y", "tsx", "unimplemented", "ldy_absolute_x", "lda_absolute_x", "ldx_absolute_y", "lax_absolute_y",
  "cpy_immediate", "cmp_indirect_x", "nop_immediate", "dcp_indirect_x", "cpy_zeropage", "cmp_zeropage", "dec_zeropage", "dcp_zeropage", "iny", "cmp_immediate", "dex", "unimplemented", "cpy_absolute", "cmp_absolute", "dec_absolute", "dcp_absolute",
  "bne", "cmp_indirect_y", "jam", "dcp_indirect_y", "nop_zeropage_x", "cmp_zeropage_x", "dec_zeropage_x", "dcp_zeropage_x", "cld", "cmp_absolute_y", "nop_implied", "dcp_absolute_y", "nop_absolute_x", "cmp_absolute_x", "dec_absolute_x", "dcp_absolute_x",
  "cpx_immediate", "sbc_indirect_x", "nop_immediate", "isc_indirect_x", "cpx_zeropage", "sbc_zeropage", "inc_zeropage", "isc_zeropage", "inx", "sbc_immediate", "nop", "sbc_immediate", "cpx_absolute", "sbc_absolute", "inc_absolute", "isc_absolute",
  "beq", "sbc_indirect_y", "jam", "isc_indirect_y", "nop_zeropage_x", "sbc_zeropage_x", "inc_zeropage_x", "isc_zeropage_x", "sed", "sbc_absolute_y", "nop_implied", "isc_absolute_y", "nop_absolute_x", "sbc_absolute_x", "inc_absolute_x", "isc_absolute_x"
>>

\* The instruction a handler implements (the part of its body after the
\* operand address is formed); a handler with one addressing mode is its
\* own kind.
KindOf(h) ==
  CASE h \in {"adc_absolute", "adc_absolute_x", "adc_absolute_y", "adc_immediate", "adc_indirect_x", "adc_indirect_y", "adc_zeropage", "adc_zeropage_x"} -> "adc"
    [] h \in {"and_absolute", "and_absolute_x", "and_absolute_y", "and_immediate", "and_indirect_x", "and_indirect_y", "and_zeropage", "and_zeropage_x"} -> "and"
    [] h \in {"asl_absolute", "asl_absolute_x", "asl_accumulator", "asl_zeropage", "asl_zeropage_x"} -> "asl"
    [] h \in {"bit_absolute", "bit_zeropage"} -> "bit"
    [] h \in {"cmp_absolute", "cmp_absolute_x", "cmp_absolute_y", "cmp_immediate", "cmp_indirect_x", "cmp_indirect_y", "cmp_zeropage", "cmp_zeropage_x"} -> "cmp"
    [] h \in {"cpx_absolute", "cpx_immediate", "cpx_zeropage"} -> "cpx"
    [] h \in {"cpy_absolute", "cpy_immediate", "cpy_zeropage"} -> "cpy"
    [] h \in {"dcp_absolute", "dcp_absolute_x", "dcp_absolute_y", "dcp_indirect_x", "dcp_indirect_y", "dcp_zeropage", "dcp_zeropage_x"} -> "dcp"
    [] h \in {"dec_absolute", "dec_absolute_x", "dec_zeropage", "dec_zeropage_x"} -> "dec"
    [] h \in {"eor_absolute", "eor_absolute_x", "eor_absolute_y", "eor_immediate", "eor_indirect_x", "eor_indirect_y", "eor_zeropage", "eor_zeropage_x"} -> "eor"
    [] h \in {"inc_absolute", "inc_absolute_x", "inc_zeropage", "inc_zeropage_x"} -> "inc"
    [] h \in {"isc_absolute", "isc_absolute_x", "isc_absolute_y", "isc_indirect_x", "isc_indirect_y", "isc_zeropage", "isc_zeropage_x"} -> "isc"
    [] h \in {"jmp_absolute", "jmp_indirect"} -> "jmp"
    [] h \in {"lax_absolute", "lax_absolute_y", "lax_indirect_x", "lax_indirect_y", "lax_zeropage", "lax_zeropage_y"} -> "lax"
    [] h \in {"lda_absolute", "lda_absolute_x", "lda_absolute_y", "lda_immediate", "lda_indirect_x", "lda_indirect_y", "lda_zero_page", "lda_zeropage_x"} -> "lda"
    [] h \in {"ldx_absolute", "ldx_absolute_y", "ldx_immediate", "ldx_zeropage", "ldx_zeropage_y"} -> "ldx"
    [] h \in {"ldy_absolute", "ldy_absolute_x", "ldy_immediate", "ldy_zeropage", "ldy_zeropage_x"} -> "ldy"
    [] h \in {"lsr_absolute", "lsr_absolute_x", "lsr_accumulator", "lsr_zeropage", "lsr_zeropage_x"} -> "lsr"
    [] h \in {"nop", "nop_absolute", "nop_absolute_x", "nop_immediate", "nop_implied", "nop_zeropage", "nop_zeropage_x"} -> "nop"
    [] h \in {"ora_absolute", "ora_absolute_x", "ora_absolute_y", "ora_immediate", "ora_indirect_x", "ora_indirect_y", "ora_zeropage", "ora_zeropage_x"} -> "ora"
    [] h \in {"rla_absolute", "rla_absolute_x", "rla_absolute_y", "rla_indirect_x", "rla_indirect_y", "rla_zeropage", "rla_zeropage_x"} -> "rla"
    [] h \in {"rol_absolute", "rol_absolute_x", "rol_accumulator", "rol_zeropage", "rol_zeropage_x"} -> "rol"
    [] h \in {"ror_absolute", "ror_absolute_x", "ror_accumulator", "ror_zeropage", "ror_zeropage_x"} -> "ror"
    [] h \in {"rra_absolute", "rra_absolute_x", "rra_absolute_y", "rra_indirect_x", "rra_indirect_y", "rra_zeropage", "rra_zeropage_x"} -> "rra"
    [] h \in {"sax_absolute", "sax_indirect_x", "sax_zeropage", "sax_zeropage_y"} -> "sax"
    [] h \in {"sbc_absolute", "sbc_absolute_x", "sbc_absolute_y", "sbc_immediate", "sbc_indirect_x", "sbc_indirect_y", "sbc_zeropage", "sbc_zeropage_x"} -> "sbc"
    [] h \in {"slo_absolute", "slo_absolute_x", "slo_absolute_y", "slo_indirect_x", "slo_indirect_y", "slo_zeropage", "slo_zeropage_x"} -> "slo"
    [] h \in {"sre_absolute", "sre_absolute_x", "sre_absolute_y", "sre_indirect_x", "sre_indirect_y", "sre_zeropage", "sre_zeropage_x"} -> "sre"
    [] h \in {"sta_absolute", "sta_absolute_x", "sta_absolute_y", "sta_indirect_x", "sta_indirect_y", "sta_zero_page", "sta_zeropage_x"} -> "sta"
    [] h \in {"stx_absolute", "stx_zero_page", "stx_zeropage_y"} -> "stx"
    [] h \in {"sty_absolute", "sty_zeropage", "sty_zeropage_x"} -> "sty"
    [] OTHER -> h

\* The addressing mode a handler forms its operand with.
ModeOf(h) ==
  CASE h \in {"adc_immediate", "and_immediate", "cmp_immediate", "cpx_immediate", "cpy_immediate", "eor_immediate", "lda_immediate", "ldx_immediate", "ldy_immediate", "nop_immediate", "ora_immediate", "sbc_immediate"} -> "immediate"
    [] h \in {"adc_zeropage", "and_zeropage", "asl_zeropage", "bit_zeropage", "cmp_zeropage", "cpx_zeropage", "cpy_zeropage", "dcp_zeropage", "dec_zeropage", "eor_zeropage", "inc_zeropage", "isc_zeropage", "lax_zeropage", "lda_zero_page", "ldx_zeropage", "ldy_zeropage", "lsr_zeropage", "nop_zeropage", "ora_zeropage", "rla_zeropage", "rol_zeropage", "ror_zeropage", "rra_zeropage", "sax_zeropage", "sbc_zeropage", "slo_zeropage", "sre_zeropage", "sta_zero_page", "stx_zero_page", "sty_zeropage"} -> "zeropage"
    [] h \in {"adc_zeropage_x", "and_zeropage_x", "asl_zeropage_x", "cmp_zeropage_x", "dcp_zeropage_x", "dec_zeropage_x", "eor_zeropage_x", "inc_zeropage_x", "isc_zeropage_x", "lda_zeropage_x", "ldy_zeropage_x", "lsr_zeropage_x", "nop_zeropage_x", "ora_zeropage_x", "rla_zeropage_x", "rol_zeropage_x", "ror_zeropage_x", "rra_zeropage_x", "sbc_zeropage_x", "slo_zeropage_x", "sre_zeropage_x", "sta_zeropage_x", "sty_zeropage_x"} -> "zeropage_x"
    [] h \in {"lax_zeropage_y", "ldx_zeropage_y", "sax_zeropage_y", "stx_zeropage_y"} -> "zeropage_y"
    [] h \in {"adc_absolute", "and_absolute", "asl_absolute", "bit_absolute", "cmp_absolute", "cpx_absolute", "cpy_absolute", "dcp_absolute", "dec_absolute", "eor_absolute", "inc_absolute", "isc_absolute", "jmp_absolute", "lax_absolute", "lda_absolute", "ldx_absolute", "ldy_absolute", "lsr_absolute", "nop_absolute", "ora_absolute", "rla_absolute", "rol_absolute", "ror_absolute", "rra_absolute", "sax_absolute", "sbc_absolute", "slo_absolute", "sre_absolute", "sta_absolute", "stx_absolute", "sty_absolute"} -> "absolute"
    [] h \in {"adc_absolute_x", "and_absolute_x", "asl_absolute_x", "cmp_absolute_x", "dcp_absolute_x", "dec_absolute_x", "eor_absolute_x", "inc_absolute_x", "isc_absolute_x", "lda_absolute_x", "ldy_absolute_x", "lsr_absolute_x", "nop_absolute_x", "ora_absolute_x", "rla_absolute_x", "rol_absolute_x", "ror_absolute_x", "rra_absolute_x", "sbc_absolute_x", "slo_absolute_x", "sre_absolute_x", "sta_absolute_x"} -> "absolute_x"
    [] h \in {"adc_absolute_y", "and_absolute_y", "cmp_absolute_y", "dcp_absolute_y", "eor_absolute_y", "isc_absolute_y", "lax_absolute_y", "lda_absolute_y", "ldx_absolute_y", "ora_absolute_y", "rla_absolute_y", "rra_absolute_y", "sbc_absolute_y", "slo_absolute_y", "sre_absolute_y", "sta_absolute_y"} -> "absolute_y"
    [] h \in {"adc_indirect_x", "and_indirect_x", "cmp_indirect_x", "dcp_indirect_x", "eor_indirect_x", "isc_indirect_x", "lax_indirect_x", "lda_indirect_x", "ora_indirect_x", "rla_indirect_x", "rra_indirect_x", "sax_indirect_x", "sbc_indirect_x", "slo_indirect_x", "sre_indirect_x", "sta_indirect_x"} -> "indirect_x"
    [] h \in {"adc_indirect_y", "and_indirect_y", "cmp_indirect_y", "dcp_indirect_y", "eor_indirect_y", "isc_indirect_y", "lax_indirect_y", "lda_indirect_y", "ora_indirect_y", "rla_indirect_y", "rra_indirect_y", "sbc_indirect_y", "slo_indirect_y", "sre_indirect_y", "sta_indirect_y"} -> "indirect_y"
    [] h \in {"asl_accumulator", "lsr_accumulator", "rol_accumulator", "ror_accumulator"} -> "accumulator"
    [] h \in {"jmp_indirect"} -> "indirect"
    [] h \in {"bcc", "bcs", "beq", "bmi", "bne", "bpl", "bvc", "bvs"} -> "relative"
    [] OTHER -> "implied"

\* The `self.cycles += n` of each handler (the branches charge theirs in
\* CPU::branch; jam charges nothing).
CyclesOf(h) ==
  CASE h \in {"adc_immediate", "and_immediate", "asl_accumulator", "clc", "cld", "cli", "clv", "cmp_immediate", "cpx_immediate", "cpy_immediate", "dex", "dey", "eor_immediate", "inx", "iny", "lda_immediate", "ldx_immediate", "ldy_immediate", "lsr_accumulator", "nop", "nop_immediate", "nop_implied", "ora_immediate", "rol_accumulator", "ror_accumulator", "sbc_immediate", "sec", "sed", "sei", "tax", "tay", "tsx", "txa", "txs", "tya"} -> 2
    [] h \in {"adc_zeropage", "and_zeropage", "bit_zeropage", "cmp_zeropage", "cpx_zeropage", "cpy_zeropage", "eor_zeropage", "jmp_absolute", "lax_zeropage", "lda_zero_page", "ldx_zeropage", "ldy_zeropage", "nop_zeropage", "ora_zeropage", "pha", "php", "sax_zeropage", "sbc_zeropage", "sta_zero_page", "stx_zero_page", "sty_zeropage"} -> 3
    [] h \in {"adc_absolute", "adc_absolute_x", "adc_absolute_y", "adc_zeropage_x", "and_absolute", "and_absolute_x", "and_absolute_y", "and_zeropage_x", "bit_absolute", "cmp_absolute", "cmp_absolute_x", "cmp_absolute_y", "cmp_zeropage_x", "cpx_absolute", "cpy_absolute", "eor_absolute", "eor_absolute_x", "eor_absolute_y", "eor_zeropage_x", "lax_absolute", "lax_absolute_y", "lax_zeropage_y", "lda_absolute", "lda_absolute_x", "lda_absolute_y", "lda_zeropage_x", "ldx_absolute", "ldx_absolute_y", "ldx_zeropage_y", "ldy_absolute", "ldy_absolute_x", "ldy_zeropage_x", "nop_absolute", "nop_absolute_x", "nop_zeropage_x", "ora_absolute", "ora_absolute_x", "ora_absolute_y", "ora_zeropage_x", "pla", "plp", "sax_absolute", "sax_zeropage_y", "sbc_absolute", "sbc_absolute_x", "sbc_absolute_y", "sbc_zeropage_x", "sta_absolute", "sta_zeropage_x", "stx_absolute", "stx_zeropage_y", "sty_absolute", "sty_zeropage_x"} -> 4
    [] h \in {"adc_indirect_y", "and_indirect_y", "asl_zeropage", "cmp_indirect_y", "dcp_zeropage", "dec_zeropage", "eor_indirect_y", "inc_zeropage", "isc_zeropage", "jmp_indirect", "lax_indirect_y", "lda_indirect_y", "lsr_zeropage", "ora_indirect_y", "rla_zeropage", "rol_zeropage", "ror_zeropage", "rra_zeropage", "sbc_indirect_y", "slo_zeropage", "sre_zeropage", "sta_absolute_x", "sta_absolute_y"} -> 5
    [] h \in {"adc_indirect_x", "and_indirect_x", "asl_absolute", "asl_zeropage_x", "cmp_indirect_x", "dcp_absolute", "dcp_zeropage_x", "dec_absolute", "dec_zeropage_x", "eor_indirect_x", "inc_absolute", "inc_zeropage_x", "isc_absolute", "isc_zeropage_x", "jsr", "lax_indirect_x", "lda_indirect_x", "lsr_absolute", "lsr_zeropage_x", "ora_indirect_x", "rla_absolute", "rla_zeropage_x", "rol_absolute", "rol_zeropage_x", "ror_absolute", "ror_zeropage_x", "rra_absolute", "rra_zeropage_x", "rti", "rts", "sax_indirect_x", "sbc_indirect_x", "slo_absolute", "slo_zeropage_x", "sre_absolute", "sre_zeropage_x", "sta_indirect_x", "sta_indirect_y"} -> 6
    [] h \in {"asl_absolute_x", "brk", "dcp_absolute_x", "dcp_absolute_y", "dec_absolute_x", "inc_absolute_x", "isc_absolute_x", "isc_absolute_y", "lsr_absolute_x", "rla_absolute_x", "rla_absolute_y", "rol_absolute_x", "ror_absolute_x", "rra_absolute_x", "rra_absolute_y", "slo_absolute_x", "slo_absolute_y", "sre_absolute_x", "sre_absolute_y"} -> 7
    [] h \in {"dcp_indirect_x", "dcp_indirect_y", "isc_indirect_x", "isc_indirect_y", "rla_indirect_x", "rla_indirect_y", "rra_indirect_x", "rra_indirect_y", "slo_indirect_x", "slo_indirect_y", "sre_indirect_x", "sre_indirect_y"} -> 8
    [] OTHER -> 0

\* The handlers that end with `if (base & 0xFF00) != (final_addr & 0xFF00)
\* { self.cycles += 1 }`.
PagePenaltyHandlers == {"adc_absolute_x", "adc_absolute_y", "adc_indirect_y", "and_absolute_x", "and_absolute_y", "and_indirect_y", "cmp_absolute_x", "cmp_absolute_y", "cmp_indirect_y", "eor_absolute_x", "eor_absolute_y", "eor_indirect_y", "lax_absolute_y", "lax_indirect_y", "lda_absolute_x", "lda_absolute_y", "lda_indirect_y", "ldx_absolute_y", "ldy_absolute_x", "nop_absolute_x", "ora_absolute_x", "ora_absolute_y", "ora_indirect_y", "sbc_absolute_x", "sbc_absolute_y", "sbc_indirect_y"}

\* `if cond { status |= flag } else { status &= !flag }`.
SetFlag(status, flag, cond) == IF cond THEN SetBit(status, flag) ELSE ClearBit(status, flag)

\* CPU::update_zero_and_negative_flags, on a status byte.
update_zero_and_negative_flags(status, value) == SetFlag(SetFlag(status, FLAG_ZERO, value = 0), FLAG_NEGATIVE, HasBit(value, 128))

\* The carry_in of the arithmetic handlers.
CarryIn(status) == IF HasBit(status, FLAG_CARRY) THEN 1 ELSE 0

\* The body shared by the adc_* handlers (and the second half of rra_*):
\* V is ((!(a ^ value) & (a ^ result)) & 0x80) != 0.
Adc(c, value) ==
  LET sum == c.a + value + CarryIn(c.status)
      result == sum % 256
      s1 == SetFlag(c.status, FLAG_CARRY, sum > 255)
      s2 == SetFlag(s1, FLAG_OVERFLOW, And(And(255 - Xor(c.a, value), Xor(c.a, result)), 128) # 0)
  IN [c EXCEPT !.a = result, !.status = update_zero_and_negative_flags(s2, result)]

\* A variant of the sbc_* body whose V compares the operand as fetched.
SbcPlainOverflow(c, value) ==
  LET inv == Xor(value, 255)
      sum == c.a + inv + CarryIn(c.status)
      result == sum % 256
      s1 == SetFlag(c.status, FLAG_CARRY, sum > 255)
      s2 == SetFlag(s1, FLAG_OVERFLOW, And(And(Xor(c.a, result), Xor(result, value)), 128) # 0)
  IN [c EXCEPT !.a = result, !.status = update_zero_and_negative_flags(s2, result)]

\* The body shared by the sbc_* handlers (and the second half of isc_*):
\* the operand is inverted and V is ((a ^ result) & (result ^ inv) & 0x80) != 0.
Sbc(c, value) ==
  LET inv == Xor(value, 255)
      sum == c.a + inv + CarryIn(c.status)
      result == sum % 256
      s1 == SetFlag(c.status, FLAG_CARRY, sum > 255)
      s2 == SetFlag(s1, FLAG_OVERFLOW, And(And(Xor(c.a, result), Xor(result, inv)), 128) # 0)
  IN [c EXCEPT !.a = result, !.status = update_zero_and_negative_flags(s2, result)]

\* The body shared by cmp_*, cpx_*, cpy_* (and the second half of dcp_*).
Compare(c, reg, value) == [c EXCEPT !.status = update_zero_and_negative_flags(SetFlag(c.status, FLAG_CARRY, reg >= value), (reg + 256 - value) % 256)]

\* The handlers that read their operand and change registers only.
ReadKinds == {"lda", "ldx", "ldy", "lax", "and", "ora", "eor", "adc", "sbc", "cmp", "cpx", "cpy", "bit", "nop"}

\* What a read handler does with the operand value.
ReadOp(kind, c, value) ==
  CASE kind = "lda" -> [c EXCEPT !.a = value, !.status = update_zero_and_negative_flags(@, value)]
    [] kind = "ldx" -> [c EXCEPT !.x = value, !.status = update_zero_and_negative_flags(@, value)]
    [] kind = "ldy" -> [c EXCEPT !.y = value, !.status = update_zero_and_negative_flags(@, value)]
    [] kind = "lax" -> [c EXCEPT !.a = value, !.x = value, !.status = update_zero_and_negative_flags(@, value)]
    [] kind = "and" -> [c EXCEPT !.a = And(c.a, value), !.status = update_zero_and_negative_flags(@, And(c.a, value))]
    [] kind = "ora" -> [c EXCEPT !.a = Or(c.a, value), !.status = update_zero_and_negative_flags(@, Or(c.a, value))]
    [] kind = "eor" -> [c EXCEPT !.a = Xor(c.a, value), !.status = update_zero_and_negative_flags(@, Xor(c.a, value))]
    [] kind = "adc" -> Adc(c, value)
    [] kind = "sbc" -> Sbc(c, value)
    [] kind = "cmp" -> Compare(c, c.a, value)
    [] kind = "cpx" -> Compare(c, c.x, value)
    [] kind = "cpy" -> Compare(c, c.y, value)
    [] kind = "bit" -> [c EXCEPT !.status = SetFlag(SetFlag(SetFlag(@, FLAG_ZERO, And(c.a, value) = 0), FLAG_NEGATIVE, HasBit(value, 128)), FLAG_OVERFLOW, HasBit(value, 64))]
    [] kind = "nop" -> c

\* The handlers that write a register to their operand address.
StoreKinds == {"sta", "stx", "sty", "sax"}

\* The byte a store handler writes.
StoreValue(kind, c) ==
  CASE kind = "sta" -> c.a
    [] kind = "stx" -> c.x
    [] kind = "sty" -> c.y
    [] kind = "sax" -> And(c.a, c.x)

\* The handlers that read their operand, change it and write it back.
RmwKinds == {"asl", "lsr", "rol", "ror", "inc", "dec", "slo", "rla", "sre", "rra", "dcp", "isc"}

\* What a read-modify-write handler makes of the value read: the byte
\* written back (v) and the registers left (c).
RmwOp(kind, c, value) ==
  LET shl == (value * 2) % 256
      shr == value \div 2
      rolv == shl + CarryIn(c.status)
      rorv == shr + 128 * CarryIn(c.status)
      hi == [c EXCEPT !.status = SetFlag(@, FLAG_CARRY, HasBit(value, 128))]
      lo == [c EXCEPT !.status = SetFlag(@, FLAG_CARRY, HasBit(value, 1))]
      inc == (value + 1) % 256
      dec == (value + 255) % 256
      zn(r, v) == [r EXCEPT !.status = update_zero_and_negative_flags(@, v)]
      acc(r, a) == [r EXCEPT !.a = a, !.status = update_zero_and_negative_flags(@, a)]
  IN CASE kind = "asl" -> [v |-> shl, c |-> zn(hi, shl)]
       [] kind = "lsr" -> [v |-> shr, c |-> zn(lo, shr)]
       [] kind = "rol" -> [v |-> rolv, c |-> zn(hi, rolv)]
       [] kind = "ror" -> [v |-> rorv, c |-> zn(lo, rorv)]
       [] kind = "inc" -> [v |-> inc, c |-> zn(c, inc)]
       [] kind = "dec" -> [v |-> dec, c |-> zn(c, dec)]
       [] kind = "slo" -> [v |-> shl, c |-> acc(hi, Or(c.a, shl))]
       [] kind = "rla" -> [v |-> rolv, c |-> acc(hi, And(c.a, rolv))]
       [] kind = "sre" -> [v |-> shr, c |-> acc(lo, Xor(c.a, shr))]
       [] kind = "rra" -> [v |-> rorv, c |-> Adc(lo, rorv)]
       [] kind = "dcp" -> [v |-> dec, c |-> Compare(c, c.a, dec)]
       [] kind = "isc" -> [v |-> inc, c |-> Sbc(c, inc)]

\* The handlers that change registers or flags only, with no operand.
RegisterOp(kind, c) ==
  CASE kind = "clc" -> [c EXCEPT !.status = ClearBit(@, FLAG_CARRY)]
    [] kind = "cld" -> [c EXCEPT !.status = ClearBit(@, FLAG_DECIMAL)]
    [] kind = "cli" -> [c EXCEPT !.status = ClearBit(@, FLAG_INTERRUPT_DISABLE)]
    [] kind = "clv" -> [c EXCEPT !.status = ClearBit(@, FLAG_OVERFLOW)]
    [] kind = "sec" -> [c EXCEPT !.status = SetBit(@, FLAG_CARRY)]
    [] kind = "sed" -> [c EXCEPT !.status = SetBit(@, FLAG_DECIMAL)]
    [] kind = "sei" -> [c EXCEPT !.status = SetBit(@, FLAG_INTERRUPT_DISABLE)]
    [] kind = "dex" -> [c EXCEPT !.x = (c.x + 255) % 256, !.status = update_zero_and_negative_flags(@, (c.x + 255) % 256)]
    [] kind = "dey" -> [c EXCEPT !.y = (c.y + 255) % 256, !.status = update_zero_and_negative_flags(@, (c.y + 255) % 256)]
    [] kind = "inx" -> [c EXCEPT !.x = (c.x + 1) % 256, !.status = update_zero_and_negative_flags(@, (c.x + 1) % 256)]
    [] kind = "iny" -> [c EXCEPT !.y = (c.y + 1) % 256, !.status = update_zero_and_negative_flags(@, (c.y + 1) % 256)]
    [] kind = "tax" -> [c EXCEPT !.x = c.a, !.status = update_zero_and_negative_flags(@, c.a)]
    [] kind = "tay" -> [c EXCEPT !.y = c.a, !.status = update_zero_and_negative_flags(@, c.a)]
    [] kind = "tsx" -> [c EXCEPT !.x = c.sp, !.status = update_zero_and_negative_flags(@, c.sp)]
    [] kind = "txa" -> [c EXCEPT !.a = c.x, !.status = update_zero_and_negative_flags(@, c.x)]
    [] kind = "tya" -> [c EXCEPT !.a = c.y, !.status = update_zero_and_negative_flags(@, c.y)]
    [] kind = "txs" -> [c EXCEPT !.sp = c.x]
    [] kind = "nop" -> c
    [] kind = "jam" -> [c EXCEPT !.halted = TRUE]

RegisterKinds == {"clc", "cld", "cli", "clv", "sec", "sed", "sei", "dex", "dey", "inx", "iny", "tax", "tay", "tsx", "txa", "tya", "txs", "jam"}

\* NesBus::read as the CPU sees it: the byte (v) and the machine left (m).
Read(m, addr, rom) == [m |-> BusRead(m, addr), v |-> BusReadValue(m, addr, rom)]

\* CPU::fetch_byte; rom is the byte the cartridge holds at pc.
FetchByte(m, rom) == [m |-> [BusRead(m, m.cpu.pc) EXCEPT !.cpu.pc = Wrap16(@ + 1)], v |-> BusReadValue(m, m.cpu.pc, rom)]

\* CPU::fetch_word.
FetchWord(m, lo, hi) ==
  LET f1 == FetchByte(m, lo)
      f2 == FetchByte(f1.m, hi)
  IN [m |-> f2.m, v |-> Word(f1.v, f2.v)]

\* CPU::push. The history record lists the address and the byte of each
\* push of the current operation.
Push(m, value) == [BusWrite(m, 256 + m.cpu.sp, value) EXCEPT !.cpu.sp = (@ + 255) % 256, !.obs.pushed = Append(@, <<256 + m.cpu.sp, value>>)]

\* CPU::pop.
Pop(m) == Read([m EXCEPT !.cpu.sp = (@ + 1) % 256], 256 + ((m.cpu.sp + 1) % 256), 0)

\* A variant of CPU::nmi that pushes P with B set.
NmiWithBreak(m) ==
  [Push(Push(Push(m, m.cpu.pc \div 256), m.cpu.pc % 256), SetBit(SetBit(m.cpu.status, FLAG_BREAK), FLAG_UNUSED))
     EXCEPT !.cpu.status = SetBit(@, FLAG_INTERRUPT_DISABLE),
            !.cpu.pc = Word(BusReadValue(m, 65530, 0), BusReadValue(m, 65531, 0)),
            !.cpu.cycles = @ + 7,
            !.obs.nmi_taken = @ + 1,
            !.obs.nmi = TRUE]

\* CPU::nmi. The vector bytes come from the cartridge whatever the machine
\* state.
Nmi(m) ==
  [Push(Push(Push(m, m.cpu.pc \div 256), m.cpu.pc % 256), SetBit(ClearBit(m.cpu.status, FLAG_BREAK), FLAG_UNUSED))
     EXCEPT !.cpu.status = SetBit(@, FLAG_INTERRUPT_DISABLE),
            !.cpu.pc = Word(BusReadValue(m, 65530, 0), BusReadValue(m, 65531, 0)),
            !.cpu.cycles = @ + 7,
            !.obs.nmi_taken = @ + 1,
            !.obs.nmi = TRUE]

\* CPU::irq. No function of the source calls it.
Irq(m) ==
  IF HasBit(m.cpu.status, FLAG_INTERRUPT_DISABLE) THEN m
  ELSE [Push(Push(Push(m, m.cpu.pc \div 256), m.cpu.pc % 256), SetBit(ClearBit(m.cpu.status, FLAG_BREAK), FLAG_UNUSED))
          EXCEPT !.cpu.status = SetBit(@, FLAG_INTERRUPT_DISABLE),
                 !.cpu.pc = Word(BusReadValue(m, 65534, 0), BusReadValue(m, 65535, 0)),
                 !.cpu.cycles = @ + 7,
                 !.obs.irq_taken = @ + 1]

\* CPU::brk.
Brk(m) ==
  [Push(Push(Push(m, Wrap16(m.cpu.pc + 1) \div 256), Wrap16(m.cpu.pc + 1) % 256), SetBit(SetBit(m.cpu.status, FLAG_BREAK), FLAG_UNUSED))
     EXCEPT !.cpu.status = SetBit(@, FLAG_INTERRUPT_DISABLE),
            !.cpu.pc = Word(BusReadValue(m, 65534, 0), BusReadValue(m, 65535, 0)),
            !.cpu.cycles = @ + 7]

\* An i8 offset as the u16 that wrapping_add receives.
SignExtend(offset) == IF offset >= 128 THEN offset + 65280 ELSE offset

\* CPU::branch.
Branch(m, condition, rom) ==
  LET f == FetchByte(m, rom)
      old_pc == Wrap16(m.cpu.pc + 1)
      new_pc == Wrap16(old_pc + SignExtend(f.v))
  IN IF condition
     THEN [f.m EXCEPT !.cpu.pc = new_pc,
                      !.cpu.cycles = @ + 1 + (IF Page(old_pc) # Page(new_pc) THEN 1 ELSE 0) + 2,
                      !.obs.taken = TRUE, !.obs.base = old_pc, !.obs.addr = new_pc]
     ELSE [f.m EXCEPT !.cpu.cycles = @ + 2]

\* The condition each branch handler passes to CPU::branch.
BranchCondition(kind, status) ==
  CASE kind = "bcc" -> ~HasBit(status, FLAG_CARRY)
    [] kind = "bcs" -> HasBit(status, FLAG_CARRY)
    [] kind = "beq" -> HasBit(status, FLAG_ZERO)
    [] kind = "bne" -> ~HasBit(status, FLAG_ZERO)
    [] kind = "bmi" -> HasBit(status, FLAG_NEGATIVE)
    [] kind = "bpl" -> ~HasBit(status, FLAG_NEGATIVE)
    [] kind = "bvc" -> ~HasBit(status, FLAG_OVERFLOW)
    [] kind = "bvs" -> HasBit(status, FLAG_OVERFLOW)

\* The operand of the zero-page and indirect modes: f is the fetch of the
\* operand byte; addr is the operand address, base the address before
\* indexing, m the machine after the fetch.
ZeroPageOperand(f, mode, x, y) ==
  CASE mode = "zeropage" -> [m |-> f.m, base |-> f.v, addr |-> f.v]
    [] mode = "zeropage_x" -> [m |-> f.m, base |-> (f.v + x) % 256, addr |-> (f.v + x) % 256]
    [] mode = "zeropage_y" -> [m |-> f.m, base |-> (f.v + y) % 256, addr |-> (f.v + y) % 256]
    [] mode = "indirect_x" -> [m |-> f.m, base |-> Word(BusReadValue(f.m, (f.v + x) % 256, 0), BusReadValue(f.m, (f.v + x + 1) % 256, 0)),
                               addr |-> Word(BusReadValue(f.m, (f.v + x) % 256, 0), BusReadValue(f.m, (f.v + x + 1) % 256, 0))]
    [] mode = "indirect_y" -> [m |-> f.m, base |-> Word(BusReadValue(f.m, f.v, 0), BusReadValue(f.m, (f.v + 1) % 256, 0)),
                               addr |-> Wrap16(Word(BusReadValue(f.m, f.v, 0), BusReadValue(f.m, (f.v + 1) % 256, 0)) + y)]

\* The operand of the absolute modes: w is the fetch of the operand word.
AbsoluteOperand(w, mode, x, y) ==
  CASE mode = "absolute" -> [m |-> w.m, base |-> w.v, addr |-> w.v]
    [] mode = "absolute_x" -> [m |-> w.m, base |-> w.v, addr |-> Wrap16(w.v + x)]
    [] mode = "absolute_y" -> [m |-> w.m, base |-> w.v, addr |-> Wrap16(w.v + y)]

\* The operand a handler forms; in.b1 and in.b2 are the bytes the
\* cartridge holds after the opcode.
Operand(m, mode, in) ==
  IF mode \in {"absolute", "absolute_x", "absolute_y"}
  THEN AbsoluteOperand(FetchWord(m, in.b1, in.b2), mode, m.cpu.x, m.cpu.y)
  ELSE ZeroPageOperand(FetchByte(m, in.b1), mode, m.cpu.x, m.cpu.y)

\* A variant of the handlers' charge without the page-cross cycle.
ChargeFlat(m, h, o) == [m EXCEPT !.cpu.cycles = @ + CyclesOf(h), !.obs.base = o.base, !.obs.addr = o.addr]

\* `self.cycles += n`, with the page-cross cycle of the handlers that have
\* one; o is the operand the handler formed.
Charge(m, h, o) ==
  [m EXCEPT !.cpu.cycles = @ + CyclesOf(h) + (IF h \in PagePenaltyHandlers /\ Page(o.base) # Page(o.addr) THEN 1 ELSE 0),
            !.obs.base = o.base, !.obs.addr = o.addr]

\* A handler with no operand address.
NoOperand == [base |-> 0, addr |-> 0]

\* hi_addr of CPU::jmp_indirect.
HiAddr(addr) == Page(addr) + ((addr + 1) % 256)

\* CPU::jmp_indirect after its fetch_word (w). `addr + 1` overflows u16
\* for addr = $FFFF: a build with overflow checks panics there, a build
\* without wraps (wraps says which build runs).
JmpIndirectAt(w, in, wraps) ==
  IF w.v = 65535 /\ ~wraps
  THEN [BusRead(w.m, w.v) EXCEPT !.fault = TRUE]
  ELSE [BusRead(BusRead(w.m, w.v), HiAddr(w.v))
          EXCEPT !.cpu.pc = Word(BusReadValue(w.m, w.v, in.d), BusReadValue(BusRead(w.m, w.v), HiAddr(w.v), in.d2)),
                 !.cpu.cycles = @ + 5, !.obs.base = w.v, !.obs.addr = HiAddr(w.v)]

\* The read handlers with an operand in memory.
ReadInstr(o, h, kind, rom) == Charge([BusRead(o.m, o.addr) EXCEPT !.cpu = ReadOp(kind, @, BusReadValue(o.m, o.addr, rom))], h, o)

\* The store handlers.
StoreInstr(o, h, kind) == Charge(BusWrite(o.m, o.addr, StoreValue(kind, o.m.cpu)), h, o)

\* The read-modify-write handlers with an operand in memory: one read, one
\* write.
RmwInstr(o, h, kind, rom) ==
  Charge(BusWrite([BusRead(o.m, o.addr) EXCEPT !.cpu = RmwOp(kind, @, BusReadValue(o.m, o.addr, rom)).c],
                  o.addr, RmwOp(kind, o.m.cpu, BusReadValue(o.m, o.addr, rom)).v), h, o)

\* The body of handler h, run after the opcode was fetched. in holds the
\* bytes the cartridge supplies (b1, b2: the operand bytes; d, d2: the
\* first and second data byte read from the cartridge).
Execute(m, h, in, wraps) ==
  CASE h = "unimplemented" -> [m EXCEPT !.fault = TRUE]
    [] h = "brk" -> Brk(m)
    [] h = "jmp_absolute" -> Charge([FetchWord(m, in.b1, in.b2).m EXCEPT !.cpu.pc = FetchWord(m, in.b1, in.b2).v], h, NoOperand)
    [] h = "jmp_indirect" -> JmpIndirectAt(FetchWord(m, in.b1, in.b2), in, wraps)
    [] h = "jsr" -> Charge([Push(Push(FetchWord(m, in.b1, in.b2).m, Wrap16(m.cpu.pc + 1) \div 256), Wrap16(m.cpu.pc + 1) % 256)
                              EXCEPT !.cpu.pc = FetchWord(m, in.b1, in.b2).v], h, NoOperand)
    [] h = "rts" -> Charge([Pop(Pop(m).m).m EXCEPT !.cpu.pc = Wrap16(Word(Pop(m).v, Pop(Pop(m).m).v) + 1)], h, NoOperand)
    [] h = "rti" -> Charge([Pop(Pop(Pop(m).m).m).m EXCEPT !.cpu.status = SetBit(ClearBit(Pop(m).v, FLAG_BREAK), FLAG_UNUSED),
                                                          !.cpu.pc = Word(Pop(Pop(m).m).v, Pop(Pop(Pop(m).m).m).v)], h, NoOperand)
    [] h = "pha" -> Charge(Push(m, m.cpu.a), h, NoOperand)
    [] h = "php" -> Charge(Push(m, SetBit(SetBit(m.cpu.status, FLAG_BREAK), FLAG_UNUSED)), h, NoOperand)
    [] h = "pla" -> Charge([Pop(m).m EXCEPT !.cpu.a = Pop(m).v, !.cpu.status = update_zero_and_negative_flags(@, Pop(m).v)], h, NoOperand)
    [] h = "plp" -> Charge([Pop(m).m EXCEPT !.cpu.status = SetBit(ClearBit(Pop(m).v, FLAG_BREAK), FLAG_UNUSED)], h, NoOperand)
    [] ModeOf(h) = "relative" -> Branch(m, BranchCondition(KindOf(h), m.cpu.status), in.b1)
    [] ModeOf(h) = "accumulator" -> Charge([m EXCEPT !.cpu = [RmwOp(KindOf(h), @, m.cpu.a).c EXCEPT !.a = RmwOp(KindOf(h), m.cpu, m.cpu.a).v]], h, NoOperand)
    [] ModeOf(h) = "implied" /\ KindOf(h) \in RegisterKinds \cup {"nop"} -> Charge([m EXCEPT !.cpu = RegisterOp(KindOf(h), @)], h, NoOperand)
    [] ModeOf(h) = "immediate" -> Charge([FetchByte(m, in.b1).m EXCEPT !.cpu = ReadOp(KindOf(h), @, FetchByte(m, in.b1).v)], h, NoOperand)
    [] KindOf(h) \in ReadKinds /\ ModeOf(h) \notin {"immediate", "implied"} -> ReadInstr(Operand(m, ModeOf(h), in), h, KindOf(h), in.d)
    [] KindOf(h) \in StoreKinds -> StoreInstr(Operand(m, ModeOf(h), in), h, KindOf(h))
    [] KindOf(h) \in RmwKinds /\ ModeOf(h) # "accumulator" -> RmwInstr(Operand(m, ModeOf(h), in), h, KindOf(h), in.d)

\* What the history record holds when an operation starts: the registers
\* before it and nothing yet about what it did.
Observe(m, op) ==
  [m EXCEPT !.obs.op = op, !.obs.prev = m.obs.op, !.obs.ppu_before = m.ppu,
            !.obs.handler = "", !.obs.nmi = FALSE, !.obs.taken = FALSE,
            !.obs.base = 0, !.obs.addr = 0, !.obs.pushed = <<>>, !.obs.value = 0,
            !.obs.before = m.cpu, !.obs.exec = m.cpu,
            !.obs.irq_line = m.apu.status >= 64, !.obs.nmi_line = m.ppu.nmi]

\* The end of CPU::step: the cycles the handler added are ticked on the
\* bus; a panic leaves the machine as it is.
StepTick(m, prev_cycles, hit) == IF m.fault THEN m ELSE BusTick(m, m.cpu.cycles - prev_cycles, hit)

\* CPU::step from the opcode fetch (f) on: dispatch, then tick.
StepExecute(f, in, wraps) ==
  StepTick(Execute([f.m EXCEPT !.obs.handler = Handler[f.v + 1], !.obs.exec = f.m.cpu], Handler[f.v + 1], in, wraps), f.m.cpu.cycles, in.hit)

\* A variant of CPU::step without `if self.halted { return }`.
StepWhileHalted(m, in, wraps) ==
  StepExecute(FetchByte(IF m.ppu.nmi THEN Nmi(PollNmi(Observe(m, "step"))) ELSE Observe(m, "step"), in.op), in, wraps)

\* CPU::step. The trace line it prints is not modelled.
Step(m, in, wraps) ==
  IF m.cpu.halted THEN Observe(m, "halted_step")
  ELSE StepExecute(FetchByte(IF m.ppu.nmi THEN Nmi(PollNmi(Observe(m, "step"))) ELSE Observe(m, "step"), in.op), in, wraps)

\* A variant of CPU::reset that leaves the unused bit of P clear.
ResetBare(m) ==
  [Observe(m, "reset") EXCEPT !.cpu = [a |-> 0, x |-> 0, y |-> 0, sp |-> 253,
                                        pc |-> Word(BusReadValue(m, 65532, 0), BusReadValue(m, 65533, 0)),
                                        status |-> FLAG_INTERRUPT_DISABLE, cycles |-> 7, halted |-> FALSE]]

\* CPU::reset.
Reset(m) ==
  [Observe(m, "reset") EXCEPT !.cpu = [a |-> 0, x |-> 0, y |-> 0, sp |-> 253,
                                        pc |-> Word(BusReadValue(m, 65532, 0), BusReadValue(m, 65533, 0)),
                                        status |-> FLAG_INTERRUPT_DISABLE + FLAG_UNUSED, cycles |-> 7, halted |-> FALSE]]

\* ------------------------------------------------------- the machine

\* The machine the variables hold.
Machine == [cpu |-> cpu, ram |-> ram, ppu |-> ppu, apu |-> apu, controller |-> controller, cart |-> cart, obs |-> obs, fault |-> fault]

\* The variables take the machine m.
Becomes(m) ==
  /\ cpu' = m.cpu
  /\ ram' = m.ram
  /\ ppu' = m.ppu
  /\ apu' = m.apu
  /\ controller' = m.controller
  /\ cart' = m.cart
  /\ obs' = m.obs
  /\ fault' = m.fault

\* The registers main() constructs the CPU with, then CPU::reset on the
\* modelled image.
CpuNew == [a |-> 0, x |-> 0, y |-> 0, sp |-> 253, pc |-> Word(PrgVector(65532), PrgVector(65533)), status |-> FLAG_INTERRUPT_DISABLE + FLAG_UNUSED, cycles |-> 7, halted |-> FALSE]

\* The history record of a machine whose bus has ticked k CPU cycles
\* without an NMI edge.
ObsAt(k, c, p) ==
  [ppu_dots |-> 3 * k, apu_cycles |-> k, vblanks |-> (3 * k + DotsPerFrame - (VblankScanline * DotsPerScanline + DotsPerScanline + 1)) \div DotsPerFrame,
   nmi_edges |-> 0, nmi_taken |-> 0, irq_taken |-> 0, toggles |-> 0,
   op |-> "init", prev |-> "init", handler |-> "", nmi |-> FALSE, taken |-> FALSE, base |-> 0, addr |-> 0, pushed |-> <<>>, value |-> 0,
   before |-> c, exec |-> c, ppu_before |-> p, irq_line |-> FALSE, nmi_line |-> FALSE]

\* NesBus::new with an NROM cartridge (8 KiB of CHR), and the CPU after
\* reset.
MachineNew == [cpu |-> CpuNew, ram |-> EmptyMem, ppu |-> PpuNew, apu |-> ApuNew, controller |-> [state |-> 0, shift |-> 0],
               cart |-> [mirroring |-> "Horizontal", chr |-> EmptyMem, chr_len |-> 8192], obs |-> ObsAt(0, CpuNew, PpuNew), fault |-> FALSE]

\* ------------------------------------------------ boot images and runs

\* Two images run from reset: "nop" is filled with NOP; "nmi" starts with
\* LDA #$80; STA $2000 (NMI on) and is NOP after that. BootInput is what
\* the cartridge supplies to the instruction at pc.
BootInput(image, pc) ==
  LET i == pc - 32768
      op == IF image = "nmi" /\ i = 0 THEN 169 ELSE IF image = "nmi" /\ i = 2 THEN 141 ELSE 234
      b1 == IF image = "nmi" /\ i = 0 THEN 128 ELSE IF image = "nmi" /\ i = 2 THEN 0 ELSE 234
      b2 == IF image = "nmi" /\ i = 2 THEN 32 ELSE 234
  IN [op |-> op, b1 |-> b1, b2 |-> b2, d |-> 234, d2 |-> 234, hit |-> FALSE]

\* The machine k CPU cycles after reset on a boot image, while the frame
\* driver has met no NMI: the PPU is 3k dots on, the APU k cycles; all 64
\* sprites of the zeroed OAM sit on scanlines 0..7, so sprite overflow is up
\* once scanline 0 has been rendered; frame_ready is up from the vblank dot
\* until the driver presents the frame.
Boot(k, image, presented) ==
  LET dots == 3 * k
      phase == dots % DotsPerFrame
      vbl == VblankScanline * DotsPerScanline + DotsPerScanline + 1
      on == image = "nmi" /\ k >= 6
      c == [CpuNew EXCEPT !.cycles = 7 + k,
                          !.pc = IF on THEN 32768 + 5 + ((k - 6) \div 2) ELSE IF image = "nmi" /\ k >= 2 THEN 32768 + 2 ELSE 32768 + (k \div 2),
                          !.a = IF image = "nmi" /\ k >= 2 THEN 128 ELSE 0,
                          !.status = IF image = "nmi" /\ k >= 2 THEN @ + FLAG_NEGATIVE ELSE @]
      p == [PpuNew EXCEPT !.cycle = dots % DotsPerScanline,
                          !.scanline = ((dots \div DotsPerScanline) % (WrapScanline + 1)) - 1,
                          !.vblank = phase >= vbl \/ (phase = 0 /\ dots > 0),
                          !.frame_ready = dots >= vbl /\ ~presented,
                          !.ctrl = IF on THEN 128 ELSE 0,
                          !.sprite_overflow = dots >= 2 * DotsPerScanline]
  IN [MachineNew EXCEPT
        !.cpu = c,
        !.ppu = p,
        !.apu = [ApuNew EXCEPT !.frame_cycle = k % FRAME_4STEP_RESET,
                               !.status = IF k >= FRAME_4STEP_RESET - 1 THEN 64 ELSE 0],
        !.obs = ObsAt(k, c, p)]

RECURSIVE RunProgram(_, _)
\* The machine after CPU::step has run the instructions of prog, a sequence
\* of the inputs the cartridge supplies to each, on machine m.
RunProgram(m, prog) == IF prog = <<>> THEN m ELSE RunProgram(Step(m, Head(prog), TRUE), Tail(prog))

\* The cartridge bytes of one instruction: opcode, two operand bytes, the
\* data bytes read from the cartridge, and whether the pattern data of a
\* scanline rendered meanwhile make sprite 0 hit.
Input(op, b1, b2, d, hit) == [op |-> op, b1 |-> b1, b2 |-> b2, d |-> d, d2 |-> 128, hit |-> hit]

\* ---------------------------------------------- the frame driver (main.rs)

\* The fetch that ends a DMC stall: the byte at the DMC's address is read
\* and fed to the DMC; rom is the byte the cartridge holds there.
DmcFeed(m, rom) ==
  [BusRead(m, m.apu.dmc.fetch_address) EXCEPT !.apu = DmcFeedByte(@, BusReadValue(m, m.apu.dmc.fetch_address, rom)),
                                               !.obs.addr = m.apu.dmc.fetch_address,
                                               !.obs.value = BusReadValue(m, m.apu.dmc.fetch_address, rom)]

\* The body of `while let Some(addr) = dmc_wants_fetch()`: four stall
\* cycles, ticked one by one, then the fetch.
DmcStall(m, rom) == DmcFeed(BusTick(BusTick(BusTick(BusTick([Observe(m, "stall") EXCEPT !.cpu.cycles = @ + 4], 1, FALSE), 1, FALSE), 1, FALSE), 1, FALSE), rom)

\* The frame loop is inside `while !frame_ready`: at its head ("frame")
\* with no frame ready, or at the DMC loop ("fetch").
InFrameLoop == ~fault /\ (driver.pc = "fetch" \/ (driver.pc = "frame" /\ ~ppu.frame_ready))

\* The run has consumed fewer than MaxCycles CPU cycles.
Budget == cpu.cycles - driver.start < MaxCycles

\* The instructions the images of the frame driver's runs are made of:
\* NOP, LDA #$10, LDA #$80, STA $2000, STA $4013, STA $4015, LDA $2002,
\* CLI, a JAM ($02) and an opcode with no handler ($0B).
FrameInputs == {Input(234, 0, 0, 0, FALSE), Input(169, 16, 0, 0, FALSE), Input(169, 128, 0, 0, FALSE),
                Input(141, 0, 32, 0, FALSE), Input(141, 19, 64, 0, FALSE), Input(141, 21, 64, 0, FALSE),
                Input(173, 2, 32, 0, FALSE), Input(88, 0, 0, 0, FALSE), Input(2, 0, 0, 0, FALSE), Input(11, 0, 0, 0, FALSE)}

\* The button masks the host may hold when a frame starts.
Buttons == {0, 129}

\* The frame loop after cpu.step() has left machine m: a panic aborts the
\* process, `if cpu.halted { break }` leaves the loop, else the loop goes
\* back to its head.
AfterStep(m) ==
  /\ Becomes(m)
  /\ driver' = [driver EXCEPT !.pc = IF m.fault THEN "aborted" ELSE IF m.cpu.halted THEN "exited" ELSE "frame", !.steps = @ + 1]

\* One iteration of the DMC loop.
DmcFetch ==
  /\ InFrameLoop /\ Budget
  /\ apu.dmc.fetch_pending
  /\ \E rom \in {0, 170} : Becomes(DmcStall(Machine, rom))
  /\ driver' = [driver EXCEPT !.pc = "fetch"]

\* cpu.step() in the frame loop, once no DMC fetch is pending.
CpuStep ==
  /\ InFrameLoop /\ Budget
  /\ ~apu.dmc.fetch_pending
  /\ \E in \in FrameInputs : AfterStep(Step(Machine, in, TRUE))

\* The frame is presented, frame_ready cleared and the buttons sampled for
\* the next frame.
Present ==
  /\ ~fault /\ driver.pc = "frame" /\ ppu.frame_ready
  /\ \E keys \in Buttons : Becomes([Observe(Machine, "present") EXCEPT !.ppu.frame_ready = FALSE, !.controller.state = keys])
  /\ driver' = [driver EXCEPT !.frames = @ + 1]

\* The variables hold machine m.
Holds(m) ==
  /\ cpu = m.cpu
  /\ ram = m.ram
  /\ ppu = m.ppu
  /\ apu = m.apu
  /\ controller = m.controller
  /\ cart = m.cart
  /\ obs = m.obs
  /\ fault = m.fault

\* The frame driver starts in one of four states of a boot run: at reset;
\* five dots before the first vblank with NMI off and with NMI on; and in
\* the second frame, the APU frame IRQ flag raised one cycle earlier.
StartStates == {<<0, "nop", FALSE>>, <<27506, "nop", FALSE>>, <<27506, "nmi", FALSE>>, <<29830, "nop", TRUE>>}

Init ==
  \E s \in StartStates :
    /\ Holds(Boot(s[1], s[2], s[3]))
    /\ driver = [pc |-> "frame", frames |-> IF s[3] THEN 1 ELSE 0, start |-> 7 + s[1], steps |-> 0, image |-> "any"]

Next == DmcFetch \/ CpuStep \/ Present

Spec == Init /\ [][Next]_vars

\* ------------------------------------------------------- boot runs

\* A boot image runs from reset under the frame loop: each step executes
\* the instruction the image holds at pc.
BootStep ==
  /\ InFrameLoop
  /\ cpu.cycles - driver.start < BootCycles
  /\ AfterStep(Step(Machine, BootInput(driver.image, cpu.pc), TRUE))

BootInit ==
  /\ Holds(MachineNew)
  /\ driver \in {[pc |-> "frame", frames |-> 0, start |-> 7, steps |-> 0, image |-> i] : i \in {"nop", "nmi"}}

BootNext == BootStep \/ Present

SpecBoot == BootInit /\ [][BootNext]_vars

\* Until the first NMI edge, the machine a boot run is in at the head of
\* the frame loop is the one Boot gives for its cycle count.
BootMatches ==
  (driver.pc = "frame" /\ obs.nmi_edges = 0) =>
     LET b == Boot(cpu.cycles - 7, driver.image, driver.frames >= 1)
     IN /\ cpu = b.cpu /\ ram = b.ram /\ ppu = b.ppu /\ apu = b.apu /\ cart = b.cart /\ fault = b.fault
        /\ obs.ppu_dots = b.obs.ppu_dots /\ obs.apu_cycles = b.obs.apu_cycles
        /\ obs.vblanks = b.obs.vblanks /\ obs.nmi_taken = 0 /\ obs.irq_taken = 0

\* ------------------------------------------------ single instructions

\* The machines single instructions are run on, each built by CPU::step
\* from a boot state: the reset state; a state with X = Y = 1, SP = 1,
\* A = $80, carry and negative set and the pointer $02FF at $00; a state
\* with V and Z set and I clear; and a state with an NMI latched and I
\* clear (CLI run across the vblank dot with NMI on).
CpuStates ==
  { MachineNew,
    RunProgram(MachineNew, <<Input(162, 1, 0, 0, FALSE), Input(154, 0, 0, 0, FALSE), Input(160, 1, 0, 0, FALSE),
                             Input(169, 255, 0, 0, FALSE), Input(133, 0, 0, 0, FALSE), Input(169, 2, 0, 0, FALSE),
                             Input(133, 1, 0, 0, FALSE), Input(56, 0, 0, 0, FALSE), Input(169, 128, 0, 0, FALSE)>>),
    RunProgram(MachineNew, <<Input(169, 98, 0, 0, FALSE), Input(72, 0, 0, 0, FALSE), Input(40, 0, 0, 0, FALSE)>>),
    RunProgram(Boot(27506, "nmi", FALSE), <<Input(88, 0, 0, 0, FALSE)>>) }

\* The first instruction of a run: any opcode byte, with operand bytes and
\* cartridge data that reach page crossings, zero-page wraps and both
\* signs of a branch offset.
FirstInputs == {Input(op, b1, b2, d, FALSE) : op \in 0..255, b1 \in {0, 128, 255}, b2 \in {2, 128, 255}, d \in {0, 193}}

\* The instructions after the first: NOP or a JAM.
LaterInputs == {Input(234, 0, 0, 0, FALSE), Input(2, 0, 0, 0, FALSE)}

\* The single-instruction runs after a step or a reset has left machine m.
AfterCpu(m) ==
  /\ Becomes(m)
  /\ driver' = [driver EXCEPT !.steps = @ + 1]

\* cpu.step(), called whether or not the CPU is halted.
Instruction ==
  /\ ~fault /\ driver.steps < MaxSteps
  /\ \E in \in (IF driver.steps = 0 THEN FirstInputs ELSE LaterInputs), wraps \in BOOLEAN : AfterCpu(Step(Machine, in, wraps))

\* cpu.reset().
CpuReset ==
  /\ ~fault /\ driver.steps < MaxSteps
  /\ AfterCpu(Reset(Machine))

CpuInit ==
  \E m \in CpuStates :
    /\ Holds(m)
    /\ driver = [pc |-> "cpu", frames |-> 0, start |-> m.cpu.cycles, steps |-> 0, image |-> "any"]

CpuNext == Instruction \/ CpuReset

SpecCpu == CpuInit /\ [][CpuNext]_vars

\* ------------------------------------------------ PPU register accesses

\* The machines the register accesses start from: the reset state; a boot
\* run just before and just after the first vblank dot; and a state with
\* sprite-zero hit and sprite overflow up (sprites shown, scanline 0
\* rendered with pattern data that make sprite 0 hit).
PpuStates ==
  { MachineNew, Boot(27506, "nop", FALSE), Boot(27508, "nop", TRUE),
    RunProgram(Boot(220, "nop", FALSE), <<Input(169, 20, 0, 0, FALSE), Input(141, 1, 32, 0, FALSE), Input(234, 0, 0, 0, TRUE)>>) }

\* The bytes written to the registers.
PpuData == {18, 52}

\* The register accesses after one has left machine m.
AfterPpu(m) ==
  /\ Becomes(m)
  /\ driver' = [driver EXCEPT !.steps = @ + 1]

\* bus.write($2005, data). The history record counts the $2005/$2006
\* writes since the last $2002 read.
WriteScrollReg ==
  /\ driver.steps < MaxOps
  /\ \E data \in PpuData : AfterPpu([BusWrite(Observe(Machine, "write_2005"), 8197, data) EXCEPT !.obs.value = data, !.obs.toggles = @ + 1])

\* bus.write($2006, data).
WriteAddrReg ==
  /\ driver.steps < MaxOps
  /\ \E data \in PpuData : AfterPpu([BusWrite(Observe(Machine, "write_2006"), 8198, data) EXCEPT !.obs.value = data, !.obs.toggles = @ + 1])

\* bus.read($2002); the history record keeps the byte returned.
ReadStatusReg ==
  /\ driver.steps < MaxOps
  /\ AfterPpu([BusRead(Observe(Machine, "read_2002"), 8194) EXCEPT !.obs.value = BusReadValue(Machine, 8194, 0), !.obs.toggles = 0])

PpuInit ==
  \E m \in PpuStates :
    /\ Holds(m)
    /\ driver = [pc |-> "ppu", frames |-> 0, start |-> m.cpu.cycles, steps |-> 0, image |-> "any"]

PpuNext == WriteScrollReg \/ WriteAddrReg \/ ReadStatusReg

SpecPpu == PpuInit /\ [][PpuNext]_vars

\* ------------------------------------------------ PPU data port accesses

\* The bytes written to $2006: as a high byte they select pattern memory
\* ($00xx, $14xx), a nametable ($20xx) or the palette ($3Fxx); as a low
\* byte, $14 and $3F make the palette addresses $3F14 and $3F3F.
VramBytes == {0, 20, 32, 63}

\* The machine after reset and bus.write($2000, ctrl), bus.write($2006, hi),
\* bus.write($2006, lo).
VramAt(ctrl, hi, lo) == [BusWrite(BusWrite(BusWrite(MachineNew, 8192, ctrl), 8198, hi), 8198, lo) EXCEPT !.obs.toggles = 2]

\* The machines the data port accesses start from: the VRAM address set
\* to pattern memory, a nametable, a nametable mirror and the palette,
\* with the increment 1 and (for one of them) 32.
VramStates == { VramAt(0, 0, 20), VramAt(0, 32, 0), VramAt(4, 32, 0), VramAt(0, 48, 63), VramAt(0, 63, 20), VramAt(0, 63, 0) }

\* The data port accesses after one has left machine m: the log keeps,
\* for each access, the VRAM address it found, the byte written or
\* returned, and the byte VRAM held at that address.
AfterVram(m, op, value) ==
  /\ Becomes(m)
  /\ driver' = [driver EXCEPT !.steps = @ + 1,
                              !.log = Append(@, [op |-> op, addr |-> ppu.addr, value |-> value, fetched |-> ReadDataValue(ppu, cart, 0)])]

\* bus.write($2006, data).
WritePpuAddr ==
  /\ driver.steps < MaxOps
  /\ \E data \in VramBytes : AfterVram([BusWrite(Observe(Machine, "write_2006"), 8198, data) EXCEPT !.obs.value = data, !.obs.toggles = @ + 1], "addr", data)

\* bus.write($2007, data).
WritePpuData ==
  /\ driver.steps < MaxOps
  /\ \E data \in PpuData : AfterVram([BusWrite(Observe(Machine, "write_2007"), 8199, data) EXCEPT !.obs.value = data], "write", data)

\* bus.read($2007); the history record keeps the byte returned. Pattern
\* memory that was never written reads 0.
ReadPpuData ==
  /\ driver.steps < MaxOps
  /\ AfterVram([BusRead(Observe(Machine, "read_2007"), 8199) EXCEPT !.obs.value = BusReadValue(Machine, 8199, 0)], "read", BusReadValue(Machine, 8199, 0))

VramInit ==
  \E m \in VramStates :
    /\ Holds(m)
    /\ driver = [pc |-> "vram", frames |-> 0, start |-> m.cpu.cycles, steps |-> 0, image |-> "any", log |-> <<>>]

VramNext == WritePpuAddr \/ WritePpuData \/ ReadPpuData

SpecVram == VramInit /\ [][VramNext]_vars

\* ------------------------------------------------------- OAM DMA accesses

\* The machines the OAM accesses start from: the reset state (A = 0, an
\* odd cycle count), and the states after LDA #$02 and after LDA #$02;
\* STA $00 (A = 2, an odd and an even cycle count).
DmaStates ==
  { MachineNew,
    RunProgram(MachineNew, <<Input(169, 2, 0, 0, FALSE)>>),
    RunProgram(MachineNew, <<Input(169, 2, 0, 0, FALSE), Input(133, 0, 0, 0, FALSE)>>) }

\* The RAM addresses written ($0200, $0201), the OAM addresses set and the
\* pages copied.
DmaSource == {512, 513}
DmaOamAddrs == {0, 255}
DmaPages == {0, 2}

\* bus.write(addr, data) for a RAM address.
WriteRam ==
  /\ driver.steps < MaxOps
  /\ \E addr \in DmaSource, data \in PpuData : AfterPpu([BusWrite(Observe(Machine, "write_ram"), addr, data) EXCEPT !.obs.addr = addr, !.obs.value = data])

\* bus.write($2003, data).
WriteOamAddrReg ==
  /\ driver.steps < MaxOps
  /\ \E data \in DmaOamAddrs : AfterPpu([BusWrite(Observe(Machine, "write_2003"), 8195, data) EXCEPT !.obs.value = data])

\* bus.write($4014, page).
WriteOamDma ==
  /\ driver.steps < MaxOps
  /\ \E page \in DmaPages : AfterPpu([BusWrite(Observe(Machine, "write_4014"), 16404, page) EXCEPT !.obs.value = page])

\* bus.read($2004); the history record keeps the byte returned.
ReadOamDataReg ==
  /\ driver.steps < MaxOps
  /\ AfterPpu([BusRead(Observe(Machine, "read_2004"), 8196) EXCEPT !.obs.value = BusReadValue(Machine, 8196, 0)])

\* cpu.step() with STA $4014 at the program counter.
StoreOamDma ==
  /\ driver.steps < MaxOps
  /\ AfterPpu(Step(Machine, Input(141, 20, 64, 0, FALSE), FALSE))

DmaInit ==
  \E m \in DmaStates :
    /\ Holds(m)
    /\ driver = [pc |-> "dma", frames |-> 0, start |-> m.cpu.cycles, steps |-> 0, image |-> "any"]

DmaNext == WriteRam \/ WriteOamAddrReg \/ WriteOamDma \/ ReadOamDataReg \/ StoreOamDma

SpecDma == DmaInit /\ [][DmaNext]_vars

\* ---------------------------------------------------- controller accesses

\* The button masks held while the port is accessed, and the bytes
\* written to $4016.
PadMasks == {0, 90, 129, 165, 255}
PadData == {0, 1}

\* The port accesses after one has left machine m. The driver record
\* counts the reads since the strobe was released (a write with bit 0
\* clear straight after a write with bit 0 set); released says whether it
\* has been, last is the access before this one.
AfterPad(m, released, reads, last) ==
  /\ Becomes(m)
  /\ driver' = [driver EXCEPT !.steps = @ + 1, !.released = released, !.reads = reads, !.last = last]

\* bus.write($4016, data).
WriteStrobe ==
  /\ driver.steps < MaxPadOps
  /\ \E data \in PadData :
       AfterPad([BusWrite(Observe(Machine, "write_4016"), 16406, data) EXCEPT !.obs.value = data],
                IF data = 1 THEN FALSE ELSE (driver.released \/ driver.last = "high"),
                IF data = 1 \/ driver.last = "high" THEN 0 ELSE driver.reads,
                IF data = 1 THEN "high" ELSE "low")

\* bus.read($4016); the history record keeps the byte returned.
ReadPad ==
  /\ driver.steps < MaxPadOps
  /\ AfterPad([BusRead(Observe(Machine, "read_4016"), 16406) EXCEPT !.obs.value = BusReadValue(Machine, 16406, 0)],
              driver.released, driver.reads + 1, "read")

PadInit ==
  \E mask \in PadMasks :
    /\ Holds([MachineNew EXCEPT !.controller.state = mask])
    /\ driver = [pc |-> "pad", frames |-> 0, start |-> 7, steps |-> 0, image |-> "any", released |-> FALSE, reads |-> 0, last |-> "none"]

PadNext == WriteStrobe \/ ReadPad

SpecPad == PadInit /\ [][PadNext]_vars

\* ------------------------------------------------------- MMC1 (mapper 1)

\* The PRG sizes of the images (in 16 KiB banks), the addresses and bytes
\* the CPU writes, and the addresses it reads.
Mmc1Banks == {8}
Mmc1WriteAddrs == {32768, 40960, 57344}
Mmc1Data == {0, 1, 128}
Mmc1ReadAddrs == {32768, 65535}

\* The cartridge accesses after one has left machine m. The driver record
\* keeps the control and PRG bank registers before the access, the bit 0
\* of each write made since the shift register was last empty, and the
\* prg_rom index of a read.
AfterMmc1(m, bits, index) ==
  /\ Becomes(m)
  /\ driver' = [driver EXCEPT !.was = [control |-> cart.control, prg_bank |-> cart.prg_bank], !.bits = bits, !.index = index]

\* bus.write(addr, data) for addr in $8000-$FFFF: cart.write(addr, data).
Mmc1CpuWrite ==
  /\ ~fault
  /\ \E addr \in Mmc1WriteAddrs, data \in Mmc1Data :
       AfterMmc1([Machine EXCEPT !.cart = Mapper1Write(@, addr, data), !.obs.op = "cart_write", !.obs.addr = addr, !.obs.value = data],
                 IF data >= 128 THEN <<>> ELSE IF Len(driver.bits) = 5 THEN <<data % 2>> ELSE Append(driver.bits, data % 2),
                 -1)

\* bus.read(addr) for addr in $8000-$FFFF: cart.read(addr), which panics
\* when the index is past the end of prg_rom.
Mmc1CpuRead ==
  /\ ~fault
  /\ \E addr \in Mmc1ReadAddrs :
       AfterMmc1([Machine EXCEPT !.fault = Mapper1ReadIndex(cart, addr) >= cart.banks * 16384, !.obs.op = "cart_read", !.obs.addr = addr, !.obs.value = 0],
                 driver.bits, Mapper1ReadIndex(cart, addr))

Mmc1Init ==
  \E banks \in Mmc1Banks :
    /\ Holds([MachineNew EXCEPT !.cart = Mapper1New(banks)])
    /\ driver = [pc |-> "mmc1", frames |-> 0, start |-> 7, steps |-> 0, image |-> "any",
                 was |-> [control |-> 12, prg_bank |-> 0], bits |-> <<>>, index |-> -1]

Mmc1Next == Mmc1CpuWrite \/ Mmc1CpuRead

SpecMmc1 == Mmc1Init /\ [][Mmc1Next]_vars

\* ------------------------------------------------------- MMC3 (mapper 4)

\* The registers the CPU writes ($A000, $A001 and the four IRQ registers),
\* the bytes written, and the pattern addresses the PPU reads ($0000,
\* $0FFF, $1000, $1FFF).
Mmc3WriteAddrs == {40960, 40961, 49152, 49153, 57344, 57345}
Mmc3Data == {0, 1, 2}
Mmc3ChrAddrs == {0, 4095, 4096, 8191}

\* Whether the access recorded in m, made on cartridge state before, was a
\* CHR access that raised A12.
Mmc3Rising(before, m) == m.obs.op = "chr_access" /\ ~before.last_chr_a12 /\ HasBit(m.obs.addr, 4096)

\* Where a run stands in the sequence "latch written ($C000), reload
\* requested ($C001), IRQ enabled ($E001) with no IRQ pending, rising edges
\* of A12": "latched", "reload", "armed" after the three writes made in
\* that order, "fired" once an edge has asserted the pending IRQ, "idle"
\* when another IRQ register write or an edge before the enable has broken
\* the sequence.
Mmc3Phase(d, before, m) ==
  LET w == m.obs.op = "cart_write"
      a == m.obs.addr
  IN CASE w /\ a >= 49152 /\ a < 57344 /\ a % 2 = 0 -> "latched"
       [] w /\ a >= 49152 /\ a < 57344 /\ a % 2 = 1 -> IF d.phase = "latched" THEN "reload" ELSE "idle"
       [] w /\ a >= 57344 /\ a % 2 = 1 -> IF d.phase = "reload" /\ ~before.irq_pending THEN "armed" ELSE "idle"
       [] w /\ a >= 57344 /\ a % 2 = 0 -> "idle"
       [] Mmc3Rising(before, m) /\ d.phase = "reload" -> "idle"
       [] Mmc3Rising(before, m) /\ d.phase = "armed" /\ m.cart.irq_pending -> "fired"
       [] OTHER -> d.phase

\* The rising edges of A12 counted since the sequence was armed, up to and
\* including the edge that asserted the IRQ.
Mmc3Edges(d, before, m) ==
  CASE d.phase = "armed" /\ Mmc3Rising(before, m) -> d.edges + 1
    [] Mmc3Phase(d, before, m) \in {"armed", "fired"} /\ d.phase \in {"armed", "fired"} -> d.edges
    [] OTHER -> 0

\* The cartridge accesses after one has left machine m; the driver record
\* keeps the cartridge before the access and follows the IRQ sequence.
AfterMmc3(m) ==
  /\ Becomes(m)
  /\ driver' = [driver EXCEPT !.was = cart, !.phase = Mmc3Phase(driver, cart, m), !.edges = Mmc3Edges(driver, cart, m)]

\* bus.write(addr, data) for addr in $8000-$FFFF: cart.write(addr, data).
Mmc3CpuWrite ==
  /\ ~fault
  /\ \E addr \in Mmc3WriteAddrs, data \in Mmc3Data :
    AfterMmc3([Machine EXCEPT !.cart = Mapper4Write(@, addr, data), !.obs.op = "cart_write", !.obs.addr = addr, !.obs.value = data])

\* cart.on_chr_access(addr), as PPU::read_data and PPU::render_scanline
\* call it for each pattern byte they read.
Mmc3ChrAccess ==
  /\ ~fault
  /\ \E addr \in Mmc3ChrAddrs :
    AfterMmc3([Machine EXCEPT !.cart = Mapper4OnChrAccess(@, addr), !.obs.op = "chr_access", !.obs.addr = addr, !.obs.value = 0])

\* cart.poll_irq(); the history record keeps the value returned.
Mmc3PollIrq ==
  /\ ~fault
  /\ AfterMmc3([Machine EXCEPT !.cart = Mapper4PollIrq(@), !.obs.op = "poll_irq", !.obs.addr = 0, !.obs.value = IF cart.irq_pending THEN 1 ELSE 0])

Mmc3Init ==
  /\ Holds([MachineNew EXCEPT !.cart = Mapper4New])
  /\ driver = [pc |-> "mmc3", frames |-> 0, start |-> 7, steps |-> 0, image |-> "any", was |-> Mapper4New, phase |-> "idle", edges |-> 0]

Mmc3Next == Mmc3CpuWrite \/ Mmc3ChrAccess \/ Mmc3PollIrq

SpecMmc3 == Mmc3Init /\ [][Mmc3Next]_vars

\* ------------------------------------------ PRG-RAM accesses on MMC3

\* The PRG-RAM addresses the CPU accesses ($6000 and $7FFF) and the bytes
\* it writes there.
PrgRamAddrs == {24576, 32767}
PrgRamData == {0, 165}

\* bus.write(addr, data) for addr in $6000-$7FFF; the driver record keeps
\* the byte last written to each address.
PrgRamWrite ==
  /\ ~fault
  /\ \E addr \in PrgRamAddrs, data \in PrgRamData :
       /\ Becomes([BusWrite(Machine, addr, data) EXCEPT !.obs.op = "bus_write", !.obs.addr = addr, !.obs.value = data])
       /\ driver' = [driver EXCEPT !.written[addr] = data]

\* bus.read(addr) for addr in $6000-$7FFF; the history record keeps the
\* byte returned.
PrgRamRead ==
  /\ ~fault
  /\ \E addr \in PrgRamAddrs :
       /\ Becomes([BusRead(Machine, addr) EXCEPT !.obs.op = "bus_read", !.obs.addr = addr, !.obs.value = BusReadValue(Machine, addr, 0)])
       /\ UNCHANGED driver

PrgRamInit ==
  /\ Holds([MachineNew EXCEPT !.cart = Mapper4New])
  /\ driver = [pc |-> "prg_ram", frames |-> 0, start |-> 7, steps |-> 0, image |-> "any", was |-> Mapper4New, phase |-> "idle", edges |-> 0,
               written |-> [a \in PrgRamAddrs |-> -1]]

PrgRamNext == PrgRamWrite \/ PrgRamRead \/ Mmc3CpuWrite

SpecPrgRam == PrgRamInit /\ [][PrgRamNext]_vars

\* ------------------------------------------------ the APU frame sequencer

RECURSIVE BusWrites(_, _)
\* A sequence of CPU stores <<addr, data>>, each through NesBus::write.
BusWrites(m, ws) ==
  IF ws = <<>> THEN m ELSE BusWrite(BusWrites(m, SubSeq(ws, 1, Len(ws) - 1)), ws[Len(ws)][1], ws[Len(ws)][2])

\* Three machines set up by CPU stores: one with the APU as at power-on
\* but for the $4017 write, and two with the four channels enabled ($4015),
\* their length counters loaded with 254 ($4003/$4007/$400B/$400F),
\* envelopes restarted with period 2 and the linear counter set to reload
\* 5; in the last the length counters are halted (the envelopes loop, the
\* linear counter keeps reloading). The last store, to $4017, selects
\* 4-step mode with the frame IRQ inhibited or not (mode).
SeqSetup(mode) ==
  { BusWrites(MachineNew, << <<16407, mode>> >>),
    BusWrites(MachineNew, << <<16405, 15>>, <<16384, 2>>, <<16387, 8>>, <<16388, 2>>, <<16391, 8>>,
                             <<16392, 5>>, <<16395, 8>>, <<16396, 2>>, <<16399, 8>>, <<16407, mode>> >>),
    BusWrites(MachineNew, << <<16405, 15>>, <<16384, 34>>, <<16387, 8>>, <<16388, 34>>, <<16391, 8>>,
                             <<16392, 133>>, <<16395, 8>>, <<16396, 34>>, <<16399, 8>>, <<16407, mode>> >>) }

\* The cycles ticked before a run starts: none, or enough to come close to
\* one of the marks of the sequence.
SeqStarts == {0, 7455, 14910, 22365, 29820}

\* The machines a run of the sequencer starts from: a set-up machine whose
\* APU has been ticked through the cycles of a start.
SeqStates ==
  { [m EXCEPT !.apu = ApuTick(@, n), !.obs.apu_cycles = n] : m \in SeqSetup(0) \cup SeqSetup(64), n \in SeqStarts }

\* The cycle counts of the APU::tick calls of a run.
SeqTicks == {1, 3}

\* The bytes written to $4017: 4-step, 4-step with IRQ inhibit, 5-step.
SeqModes == {0, 64, 128}

\* An APU access has left the APU as a; the driver record keeps the APU
\* before the access.
AfterSeq(a, op, value) ==
  /\ apu' = a
  /\ obs' = [obs EXCEPT !.op = op, !.value = value, !.apu_cycles = IF op = "apu_tick" THEN @ + value ELSE @]
  /\ driver' = [driver EXCEPT !.steps = @ + 1, !.was = apu]
  /\ UNCHANGED <<cpu, ram, ppu, controller, cart, fault>>

\* APU::tick(cycles), as NesBus::tick calls it.
SeqTick ==
  /\ driver.steps < MaxSeqOps
  /\ \E cycles \in SeqTicks : AfterSeq(ApuTick(apu, cycles), "apu_tick", cycles)

\* bus.write($4017, data): APU::write.
SeqWrite4017 ==
  /\ driver.steps < MaxSeqOps
  /\ \E data \in SeqModes : AfterSeq(ApuWrite(apu, 16407, data), "write_4017", data)

SeqInit ==
  /\ \E m \in SeqStates : Holds(m)
  /\ driver = [pc |-> "seq", frames |-> 0, start |-> 7, steps |-> 0, image |-> "any", was |-> apu]

SeqNext == SeqTick \/ SeqWrite4017

SpecSeq == SeqInit /\ [][SeqNext]_vars

\* ------------------------------------------------ APU register accesses

\* The machines a run of the APU registers starts from: the machine at
\* power-on; that machine with the APU ticked through one 4-step sequence,
\* the frame-IRQ flag raised at its last mark; and each of the two with a
\* DMC sample of one byte set up, IRQ enabled ($4010 <- $80, $4013 <- 0).
ApuStates ==
  { MachineNew,
    [MachineNew EXCEPT !.apu = ApuTick(@, 29829), !.obs.apu_cycles = 29829],
    BusWrites(MachineNew, << <<16400, 128>>, <<16403, 0>> >>),
    BusWrites([MachineNew EXCEPT !.apu = ApuTick(@, 29829), !.obs.apu_cycles = 29829], << <<16400, 128>>, <<16403, 0>> >>) }

\* The stores of a run, <<address, byte>>: $4015 with no channel, the four
\* length-counter channels, the DMC, pulse 1 with the triangle, and pulse 2
\* with noise and the DMC enabled; the length loads $4003, $4007, $400B and
\* $400F (254 each); $4010 with the DMC IRQ enabled, with IRQ and loop, and
\* with neither; $4013 with a sample of one byte.
ApuStores == { <<16405, 0>>, <<16405, 15>>, <<16405, 16>>, <<16405, 5>>, <<16405, 26>>,
               <<16387, 8>>, <<16391, 8>>, <<16395, 8>>, <<16399, 8>>,
               <<16400, 128>>, <<16400, 192>>, <<16400, 0>>, <<16403, 0>> }

\* An access has left machine m; the driver record keeps the APU before it.
AfterApu(m) ==
  /\ Becomes(m)
  /\ driver' = [driver EXCEPT !.steps = @ + 1, !.was = apu]

\* bus.write(addr, data) for an APU register.
ApuStore ==
  /\ driver.steps < MaxApuOps
  /\ \E w \in ApuStores :
       AfterApu([BusWrite(Machine, w[1], w[2]) EXCEPT !.obs.op = "apu_write", !.obs.addr = w[1], !.obs.value = w[2]])

\* bus.read($4015); the history record keeps the byte returned.
ApuLoad ==
  /\ driver.steps < MaxApuOps
  /\ AfterApu([BusRead(Machine, 16405) EXCEPT !.obs.op = "read_4015", !.obs.addr = 16405, !.obs.value = BusReadValue(Machine, 16405, 0)])

\* One iteration of the DMC loop of the frame driver: the stall and the
\* fetch of the byte the DMC asked for.
ApuFetch ==
  /\ driver.steps < MaxApuOps
  /\ apu.dmc.fetch_pending
  /\ AfterApu(DmcStall(Machine, 170))

ApuInit ==
  /\ \E m \in ApuStates : Holds(m)
  /\ driver = [pc |-> "apu", frames |-> 0, start |-> 7, steps |-> 0, image |-> "any", was |-> apu]

ApuNext == ApuStore \/ ApuLoad \/ ApuFetch

SpecApu == ApuInit /\ [][ApuNext]_vars

\* ------------------------------------------------ DMC sample playback

\* A machine whose program has set up a DMC sample of 65 bytes at $FFC0,
\* at the fastest rate, with the IRQ-enable and loop bits of flags
\* ($4010, $4012, $4013), and has enabled the DMC ($4015).
DmcSetup(flags) ==
  BusWrites(MachineNew, << <<16400, flags + 15>>, <<16402, 255>>, <<16403, 4>>, <<16405, 16>> >>)

\* The cycle counts of the APU::tick calls of a playback run: one bit and
\* one byte of the sample at the fastest rate.
DmcTicks == {54, 432}

RECURSIVE DmcAwait(_, _)
\* APU::tick, a bit's time at a call, until the DMC asks for its next byte
\* (n calls at most).
DmcAwait(m, n) ==
  IF m.apu.dmc.fetch_pending \/ n = 0 THEN m
  ELSE DmcAwait([m EXCEPT !.apu = ApuTick(@, 54), !.obs.apu_cycles = @ + 54], n - 1)

RECURSIVE DmcPlayed(_, _)
\* Machine m after k more bytes of the sample have been fetched by the DMC
\* loop of the frame driver, the APU ticked on to the next request after
\* each.
DmcPlayed(m, k) ==
  IF k = 0 THEN m
  ELSE IF k = 1 THEN DmcAwait(DmcStall(m, 170), 16)
  ELSE LET h == DmcPlayed(m, k \div 2)
       IN IF h.obs.apu_cycles >= 0 THEN DmcPlayed(h, k - (k \div 2)) ELSE h

\* The machines a playback run starts from: the sample just started, and
\* 63 of its 65 bytes fetched (the DMC is about to read $FFFF); with
\* neither IRQ nor loop, with loop, with IRQ, and with both.
DmcStates == { DmcPlayed(DmcSetup(flags), k) : flags \in {0, 64, 128, 192}, k \in {0, 63} }

\* The stores of a playback run: $4010 turning loop on (IRQ off) and IRQ
\* on (loop off), and $4015 with the DMC bit set.
DmcStores == { <<16400, 79>>, <<16400, 143>>, <<16405, 16>> }

\* A playback step has left machine m; the driver record keeps the APU
\* before it.
AfterDmc(m) ==
  /\ Becomes(m)
  /\ driver' = [driver EXCEPT !.steps = @ + 1, !.was = apu]

\* One iteration of the DMC loop of the frame driver.
DmcService ==
  /\ driver.steps < MaxDmcOps
  /\ apu.dmc.fetch_pending
  /\ AfterDmc(DmcStall(Machine, 170))

\* APU::tick(cycles) while no fetch is pending.
DmcCycles ==
  /\ driver.steps < MaxDmcOps
  /\ ~apu.dmc.fetch_pending
  /\ \E cycles \in DmcTicks :
       AfterDmc([Machine EXCEPT !.apu = ApuTick(@, cycles), !.obs.op = "apu_tick", !.obs.value = cycles, !.obs.apu_cycles = @ + cycles])

\* bus.write(addr, data) for a DMC register while no fetch is pending.
DmcStore ==
  /\ driver.steps < MaxDmcOps
  /\ ~apu.dmc.fetch_pending
  /\ \E w \in DmcStores :
       AfterDmc([BusWrite(Machine, w[1], w[2]) EXCEPT !.obs.op = "apu_write", !.obs.addr = w[1], !.obs.value = w[2]])

DmcInit ==
  /\ \E m \in DmcStates : Holds(m)
  /\ driver = [pc |-> "dmc", frames |-> 0, start |-> 7, steps |-> 0, image |-> "any", was |-> apu]

DmcNext == DmcService \/ DmcCycles \/ DmcStore

SpecDmc == DmcInit /\ [][DmcNext]_vars

\* ------------------------------------------------------- the PPU dot clock

\* One pass of the PPU loop of NesBus::tick: ppu.tick(), and the rendering
\* of the visible scanline it completes.
TickDot ==
  /\ obs.ppu_dots < MaxDots
  /\ ppu' = PpuDot([ppu |-> ppu, obs |-> obs], FALSE).ppu
  /\ obs' = [PpuDot([ppu |-> ppu, obs |-> obs], FALSE).obs EXCEPT !.op = "ppu_tick"]
  /\ driver' = [driver EXCEPT !.was = ppu]
  /\ UNCHANGED <<cpu, ram, apu, controller, cart, fault>>

\* The 341 passes of a whole scanline, from its dot 0.
TickLine ==
  /\ obs.ppu_dots + DotsPerScanline <= MaxDots
  /\ ppu.cycle = 0
  /\ ppu' = PpuTicks(ppu, obs, DotsPerScanline, FALSE).ppu
  /\ obs' = [PpuTicks(ppu, obs, DotsPerScanline, FALSE).obs EXCEPT !.op = "ppu_line"]
  /\ driver' = [driver EXCEPT !.was = ppu]
  /\ UNCHANGED <<cpu, ram, apu, controller, cart, fault>>

\* The frame driver finds frame_ready set, presents the frame and clears
\* the flag.
TickPresent ==
  /\ driver.frames < 2
  /\ ppu.frame_ready
  /\ ppu' = [ppu EXCEPT !.frame_ready = FALSE]
  /\ obs' = [obs EXCEPT !.op = "present"]
  /\ driver' = [driver EXCEPT !.was = ppu, !.frames = @ + 1]
  /\ UNCHANGED <<cpu, ram, apu, controller, cart, fault>>

TickInit ==
  /\ Holds(MachineNew)
  /\ driver = [pc |-> "dots", frames |-> 0, start |-> 7, steps |-> 0, image |-> "any", was |-> ppu]

TickNext == TickDot \/ TickLine \/ TickPresent

SpecTick == TickInit /\ [][TickNext]_vars

\* ------------------------------------------- pattern memory on NROM

\* Cartridge::load for a mapper-0 image: header byte 5 counts the 8 KiB
\* banks of CHR-ROM, none of them making an 8 KiB CHR-RAM buffer; bit 0 of
\* header byte 6 is the mirroring. chr_banks keeps header byte 5, which the
\* loader drops.
Mapper0Load(chrBanks, flags6) ==
  [mirroring |-> IF flags6 % 2 # 0 THEN "Vertical" ELSE "Horizontal", chr |-> EmptyMem,
   chr_len |-> IF chrBanks > 0 THEN chrBanks * 8192 ELSE 8192, chr_banks |-> chrBanks]

\* The CHR sizes of the images loaded: CHR-RAM, 8 KiB and 16 KiB of CHR-ROM.
ChrBanks == {0, 1, 2}

\* The runs start with the VRAM address in pattern memory ($0014) or at
\* the first nametable.
ChrInit ==
  \E m \in {VramAt(0, 0, 20), VramAt(0, 32, 0)}, banks \in ChrBanks :
    /\ Holds([m EXCEPT !.cart = Mapper0Load(banks, 0)])
    /\ driver = [pc |-> "vram", frames |-> 0, start |-> m.cpu.cycles, steps |-> 0, image |-> "any", log |-> <<>>]

SpecChr == ChrInit /\ [][VramNext]_vars

\* ------------------------------------------------------- loading an image

\* The images handed to the loader, by what the loader looks at: whether
\* the first four bytes are "NES\x1A", the length of the file, and header
\* bytes 4 (PRG banks), 5 (CHR banks), 6 and 7 (mapper nibbles, mirroring).
RomImages ==
  [magic : BOOLEAN, len : {0, 5, 15, 16, 16399, 16400, 24591, 24592, 40976},
   prg : {0, 1, 2}, chr : {0, 1}, flags6 : {0, 1, 16, 32, 64}, flags7 : {0, 16}]

\* The mapper number of an image: (data[6] >> 4) | (data[7] & 0xF0).
MapperId(rom) == Or(rom.flags6 \div 16, rom.flags7 - (rom.flags7 % 16))

\* The bytes an image must have for its header: 16, the PRG and the CHR.
DeclaredLen(rom) == 16 + rom.prg * 16384 + rom.chr * 8192

\* Cartridge::load after read_to_end: data[4] and data[5] are indexed, the
\* PRG and CHR slices taken, data[6] and data[7] indexed, and the mapper
\* built; an index or slice past the end of the data panics, and so does a
\* mapper number other than 0, 1 and 4. The magic is not looked at.
CartridgeLoad(rom) ==
  IF rom.len < 6 \/ rom.len < 16 + rom.prg * 16384 \/ (rom.chr > 0 /\ rom.len < DeclaredLen(rom))
  THEN [result |-> "panic", cart |-> <<>>]
  ELSE CASE MapperId(rom) = 0 -> [result |-> "cartridge", cart |-> Mapper0Load(rom.chr, rom.flags6)]
         [] MapperId(rom) = 1 -> [result |-> "cartridge", cart |-> Mapper1New(rom.prg)]
         [] MapperId(rom) = 4 -> [result |-> "cartridge", cart |-> Mapper4New]
         [] OTHER -> [result |-> "panic", cart |-> <<>>]

\* main hands the image to Cartridge::load: a panic aborts the process,
\* else the bus is built around the cartridge.
LoadRom ==
  /\ driver.pc = "load"
  /\ cart' = IF CartridgeLoad(driver.rom).result = "cartridge" THEN CartridgeLoad(driver.rom).cart ELSE cart
  /\ fault' = (CartridgeLoad(driver.rom).result = "panic")
  /\ obs' = [obs EXCEPT !.op = "load"]
  /\ driver' = [driver EXCEPT !.pc = "loaded", !.result = CartridgeLoad(driver.rom).result]
  /\ UNCHANGED <<cpu, ram, ppu, apu, controller>>

LoadInit ==
  /\ Holds(MachineNew)
  /\ \E rom \in RomImages :
       driver = [pc |-> "load", frames |-> 0, start |-> 7, steps |-> 0, image |-> "any", rom |-> rom, result |-> "none"]

LoadNext == LoadRom

SpecLoad == LoadInit /\ [][LoadNext]_vars

\* ------------------------------------------------ ADC and SBC

\* The machines the arithmetic instructions run on: after reset, LDA #a
\* and then CLC or SEC, for every accumulator value and both carries.
AluStates == { RunProgram(MachineNew, <<Input(169, a, 0, 0, FALSE), Input(op, 0, 0, 0, FALSE)>>) : a \in 0..255, op \in {24, 56} }

\* cpu.step() on ADC #m ($69) or SBC #m ($E9), for every operand byte; the
\* driver record keeps the operand.
AluStep ==
  /\ ~fault /\ driver.pc = "alu"
  /\ \E op \in {105, 233}, m \in 0..255 :
       /\ Becomes(Step(Machine, Input(op, m, 0, 0, FALSE), TRUE))
       /\ driver' = [driver EXCEPT !.pc = "done", !.steps = @ + 1, !.operand = m]

AluInit ==
  \E m \in AluStates :
    /\ Holds(m)
    /\ driver = [pc |-> "alu", frames |-> 0, start |-> m.cpu.cycles, steps |-> 0, image |-> "any", operand |-> 0]

AluNext == AluStep

SpecAlu == AluInit /\ [][AluNext]_vars

\* ------------------------------------------------------- sprite evaluation

RECURSIVE OamWrites(_, _, _, _)
\* bus.write($2004, ..) four times for each of the sprites lo..hi: the Y
\* of the layout ys, then tile, attributes and X of 0.
OamWrites(m, ys, lo, hi) ==
  IF lo = hi THEN BusWrite(BusWrite(BusWrite(BusWrite(m, 8196, ys[lo]), 8196, 0), 8196, 0), 8196, 0)
  ELSE LET h == OamWrites(m, ys, lo, (lo + hi) \div 2)
       IN IF h.ppu.oam_addr >= 0 THEN OamWrites(h, ys, ((lo + hi) \div 2) + 1, hi) ELSE h

\* The sprite layouts of the runs, as the Y of each OAM entry: no sprite
\* on the first scanlines; eight at Y = 2; nine at Y = 2, the ninth being
\* the last OAM entry; and eight at Y = 2 with three more at Y = 10, which
\* share scanlines 10..17 with them only when sprites are 16 high.
SpriteLayouts ==
  { [i \in 0..63 |-> 240],
    [i \in 0..63 |-> IF i \in {3, 4, 5, 6, 20, 21, 40, 41} THEN 2 ELSE 240],
    [i \in 0..63 |-> IF i \in {0, 5, 6, 7, 20, 21, 40, 41, 63} THEN 2 ELSE 240],
    [i \in 0..63 |-> IF i \in {1, 2, 3, 4, 20, 21, 40, 41} THEN 2 ELSE IF i \in {0, 30, 62} THEN 10 ELSE 240] }

\* The machines the runs start from: the machine at power-on (OAM zeroed:
\* all 64 sprites at Y = 0), and that machine with OAM written through
\* $2003/$2004 to each layout.
SpriteStates == {MachineNew} \cup { OamWrites(BusWrite(MachineNew, 8195, 0), ys, 0, 63) : ys \in SpriteLayouts }

\* A run step has left the PPU as p and the history as o; the driver
\* record keeps the PPU before the step and, for a step that rendered a
\* scanline, that scanline and what the sprite evaluation selected.
AfterSprites(p, o, line, e) ==
  /\ ppu' = p
  /\ obs' = o
  /\ driver' = [driver EXCEPT !.steps = @ + 1, !.was = ppu, !.line = line, !.slots = e.slots, !.overflow = e.overflow]
  /\ UNCHANGED <<cpu, ram, apu, controller, cart, fault>>

\* The 341 passes of the PPU loop of NesBus::tick over a whole scanline,
\* which is rendered at its last dot if it is visible.
SpriteLine ==
  /\ driver.steps < MaxLines
  /\ ppu.cycle = 0
  /\ AfterSprites(PpuTicks(ppu, obs, DotsPerScanline, FALSE).ppu,
                  [PpuTicks(ppu, obs, DotsPerScanline, FALSE).obs EXCEPT !.op = "ppu_line"],
                  IF ppu.scanline >= 0 /\ ppu.scanline < 240 THEN ppu.scanline ELSE -1,
                  IF ppu.scanline >= 0 /\ ppu.scanline < 240
                  THEN SpriteEval(ppu, ppu.scanline, 0, 63, [slots |-> <<>>, overflow |-> FALSE])
                  ELSE [slots |-> <<>>, overflow |-> FALSE])

\* bus.write($2000, data): sprites 8 or 16 high.
SpriteCtrl ==
  /\ driver.steps < MaxLines
  /\ \E data \in {0, 32} :
       AfterSprites(BusWrite(Machine, 8192, data).ppu, [obs EXCEPT !.op = "write_2000", !.value = data], -1, [slots |-> <<>>, overflow |-> FALSE])

\* bus.read($2002), which clears the sprite-overflow flag.
SpriteStatus ==
  /\ driver.steps < MaxLines
  /\ AfterSprites(BusRead(Machine, 8194).ppu, [obs EXCEPT !.op = "read_2002", !.value = BusReadValue(Machine, 8194, 0)], -1, [slots |-> <<>>, overflow |-> FALSE])

SpriteInit ==
  /\ \E m \in SpriteStates : Holds(m)
  /\ driver = [pc |-> "sprites", frames |-> 0, start |-> 7, steps |-> 0, image |-> "any", was |-> ppu, line |-> -1, slots |-> <<>>, overflow |-> FALSE]

SpriteNext == SpriteLine \/ SpriteCtrl \/ SpriteStatus

SpecSprites == SpriteInit /\ [][SpriteNext]_vars

\* ------------------------------------------------ nametable accesses

\* An MMC1 cartridge after the CPU has written bytes with the given bits 0
\* to $8000, one after the other.
RECURSIVE Mmc1Wrote(_)
Mmc1Wrote(bits) ==
  IF bits = <<>> THEN Mapper1New(2) ELSE CartWrite(Mmc1Wrote(SubSeq(bits, 1, Len(bits) - 1)), 32768, bits[Len(bits)])

\* The cartridges of the runs: NROM images with the horizontal and the
\* vertical arrangement, an MMC3 cartridge, and MMC1 cartridges whose
\* control register the program has set to 0, 1, 2 and 3 (one-screen
\* lower, one-screen upper, vertical, horizontal), or into which it has
\* shifted four of the five bits of a control value.
NtCarts ==
  { Mapper0Load(1, 0), Mapper0Load(1, 1), Mapper4New,
    Mmc1Wrote(<<0, 0, 0, 0, 0>>), Mmc1Wrote(<<1, 0, 0, 0, 0>>), Mmc1Wrote(<<0, 1, 0, 0, 0>>), Mmc1Wrote(<<1, 1, 0, 0, 0>>),
    Mmc1Wrote(<<0, 1, 0, 0>>) }

\* The VRAM addresses the runs start at, as the two bytes written to
\* $2006: in each of the four tables, at the edges of tables, and in the
\* mirror at $3000-$3EFF up to its last byte.
NtAddrs == { <<32, 0>>, <<36, 1>>, <<43, 255>>, <<44, 0>>, <<47, 255>>, <<48, 0>>, <<52, 1>>, <<62, 255>> }

\* The mapper registers the program writes during a run ($8000: the fifth
\* bit of an MMC1 control value; $A000: the MMC3 mirroring register).
NtCartAddrs == {32768, 40960}

\* The nametable accesses after one has left machine m.
AfterNt(m) ==
  /\ Becomes(m)
  /\ driver' = [driver EXCEPT !.steps = @ + 1]

\* bus.write($2007, data).
NtWrite ==
  /\ driver.steps < MaxNtOps
  /\ \E data \in PpuData : AfterNt([BusWrite(Observe(Machine, "write_2007"), 8199, data) EXCEPT !.obs.value = data])

\* bus.read($2007); the history record keeps the byte returned.
NtRead ==
  /\ driver.steps < MaxNtOps
  /\ AfterNt([BusRead(Observe(Machine, "read_2007"), 8199) EXCEPT !.obs.value = BusReadValue(Machine, 8199, 0)])

\* bus.write(addr, data) for a mapper register.
NtCartWrite ==
  /\ driver.steps < MaxNtOps
  /\ \E addr \in NtCartAddrs, data \in {0, 1} :
       AfterNt([BusWrite(Observe(Machine, "cart_write"), addr, data) EXCEPT !.obs.addr = addr, !.obs.value = data])

NtInit ==
  \E c \in NtCarts, a \in NtAddrs, ctrl \in {0, 4} :
    /\ Holds([VramAt(ctrl, a[1], a[2]) EXCEPT !.cart = c])
    /\ driver = [pc |-> "nametable", frames |-> 0, start |-> 7, steps |-> 0, image |-> "any"]

NtNext == NtWrite \/ NtRead \/ NtCartWrite

SpecNt == NtInit /\ [][NtNext]_vars

\* ------------------------------------------- pattern memory on MMC1

\* The VRAM addresses the runs start at, as the two bytes written to
\* $2006: the first and last bytes of the two pattern tables, and a
\* nametable address.
Mmc1ChrAddrs == { <<0, 0>>, <<15, 255>>, <<16, 0>>, <<31, 255>>, <<32, 0>> }

\* bus.write($2007, data): PPU::write_data, which hands a write of
\* $0000-$1FFF to cart.write.
Mmc1ChrWrite ==
  /\ driver.steps < MaxNtOps
  /\ \E data \in Mmc1Data : AfterNt([BusWrite(Observe(Machine, "write_2007"), 8199, data) EXCEPT !.obs.value = data])

\* bus.write(addr, data) for addr in $8000-$FFFF.
Mmc1RegWrite ==
  /\ driver.steps < MaxNtOps
  /\ \E addr \in Mmc1WriteAddrs, data \in Mmc1Data :
       AfterNt([BusWrite(Observe(Machine, "cart_write"), addr, data) EXCEPT !.obs.addr = addr, !.obs.value = data])

\* The cartridge as Mapper1::new leaves it, or with one, two or four bits
\* of a register value shifted in.
Mmc1ChrInit ==
  \E c \in { Mapper1New(2), Mmc1Wrote(<<1>>), Mmc1Wrote(<<1, 1>>), Mmc1Wrote(<<1, 0, 0, 0>>) }, a \in Mmc1ChrAddrs, ctrl \in {0, 4} :
    /\ Holds([VramAt(ctrl, a[1], a[2]) EXCEPT !.cart = c])
    /\ driver = [pc |-> "mmc1chr", frames |-> 0, start |-> 7, steps |-> 0, image |-> "any"]

Mmc1ChrNext == Mmc1ChrWrite \/ Mmc1RegWrite

SpecMmc1Chr == Mmc1ChrInit /\ [][Mmc1ChrNext]_vars

\* ------------------------------------------------ DMC fetch requests

\* The stores of a run: $4015 with the DMC bit clear and set, $4013 with a
\* sample of one byte, $4010 turning loop on.
ReqStores == { <<16405, 0>>, <<16405, 16>>, <<16403, 0>>, <<16400, 79>> }

\* bus.write(addr, data) for a DMC register, a fetch pending or not.
ReqStore ==
  /\ driver.steps < MaxReqOps
  /\ \E w \in ReqStores :
       AfterDmc([BusWrite(Machine, w[1], w[2]) EXCEPT !.obs.op = "apu_write", !.obs.addr = w[1], !.obs.value = w[2]])

\* APU::tick(cycles), a fetch pending or not.
ReqTick ==
  /\ driver.steps < MaxReqOps
  /\ \E cycles \in DmcTicks :
       AfterDmc([Machine EXCEPT !.apu = ApuTick(@, cycles), !.obs.op = "apu_tick", !.obs.value = cycles, !.obs.apu_cycles = @ + cycles])

\* The answer to a request: the stall, the read of the byte asked for and
\* apu.dmc_feed_byte.
ReqFeed ==
  /\ driver.steps < MaxReqOps
  /\ apu.dmc.fetch_pending
  /\ AfterDmc(DmcStall(Machine, 170))

ReqInit ==
  /\ \E m \in DmcStates \cup {MachineNew} : Holds(m)
  /\ driver = [pc |-> "dmcreq", frames |-> 0, start |-> 7, steps |-> 0, image |-> "any", was |-> apu]

ReqNext == ReqStore \/ ReqTick \/ ReqFeed

SpecDmcReq == ReqInit /\ [][ReqNext]_vars

\* ------------------------------------------------ the status register

\* The machines the runs start from: the program has pushed three copies
\* of $10 (B alone) or of $DF (every bit but U) with LDA and PHA; or it
\* has run CLI across the vblank dot with NMI on, so that an NMI is
\* latched.
FlagStates ==
  { RunProgram(MachineNew, <<Input(169, v, 0, 0, FALSE), Input(72, 0, 0, 0, FALSE), Input(72, 0, 0, 0, FALSE), Input(72, 0, 0, 0, FALSE)>>) : v \in {16, 223} }
  \cup { RunProgram(Boot(27506, "nmi", FALSE), <<Input(88, 0, 0, 0, FALSE)>>) }

\* The first instruction of a run is any opcode byte; the later ones are
\* BRK, PHP, PLP, RTI, PHA and LDA #$10.
FlagFirst == { Input(op, 16, 0, 16, FALSE) : op \in 0..255 }
FlagLater == { Input(op, 16, 0, 16, FALSE) : op \in {0, 8, 40, 64, 72, 169} }

\* cpu.step().
FlagStep ==
  /\ ~fault /\ driver.steps < MaxFlagOps
  /\ \E in \in (IF driver.steps = 0 THEN FlagFirst ELSE FlagLater), wraps \in BOOLEAN : AfterCpu(Step(Machine, in, wraps))

\* cpu.reset().
FlagReset ==
  /\ ~fault /\ driver.steps < MaxFlagOps
  /\ AfterCpu(Reset(Machine))

FlagInit ==
  \E m \in FlagStates :
    /\ Holds(m)
    /\ driver = [pc |-> "flags", frames |-> 0, start |-> m.cpu.cycles, steps |-> 0, image |-> "any"]

FlagNext == FlagStep \/ FlagReset

SpecFlags == FlagInit /\ [][FlagNext]_vars

\* ------------------------------------------------------------ properties

\* C1: across a run of the frame driver every CPU cycle counted since reset
\* is matched by exactly three PPU dots and one APU cycle ticked on the
\* bus, the 7 cycles of an NMI service included (the counter starts at 7
\* after reset, with nothing ticked).
C1_TickAccounting ==
  ~fault => (obs.ppu_dots = 3 * (cpu.cycles - 7) /\ obs.apu_cycles = cpu.cycles - 7)

\* C2: every NMI edge (scanline 241 dot 1 reached with PPUCTRL bit 7 set)
\* is either still latched or has been serviced exactly once, a vblank
\* reached with bit 7 clear adds no service, and a step of a running CPU
\* services an NMI before its opcode fetch exactly when one was latched at
\* the instruction boundary.
C2_NmiOncePerEdge ==
  /\ obs.nmi_taken + (IF ppu.nmi THEN 1 ELSE 0) = obs.nmi_edges
  /\ obs.nmi_edges <= obs.vblanks
  /\ (obs.op = "step" => (obs.nmi <=> obs.nmi_line))
  /\ (obs.op \in {"stall", "present"} /\ obs.nmi_line => ppu.nmi)

\* An NMI latched at the first vblank was serviced by the next step, whose
\* instruction read $2002.
C2_Witness ==
  /\ obs.op = "step" /\ obs.nmi /\ obs.nmi_line
  /\ obs.nmi_edges = 1 /\ obs.nmi_taken = 1 /\ ~ppu.nmi
  /\ obs.handler = "lda_absolute" /\ obs.addr = 8194

\* C3: a step that starts with an IRQ source asserted (an APU IRQ flag up)
\* and I clear takes the IRQ before its opcode fetch: PCH, PCL and P are
\* pushed, I is set and PC is loaded from $FFFE/$FFFF; a step that starts
\* with I set enters no IRQ.
C3_IrqPolled ==
  /\ (obs.op = "step" /\ obs.irq_line /\ ~HasBit(obs.before.status, FLAG_INTERRUPT_DISABLE) /\ ~obs.nmi_line) =>
        /\ Len(obs.pushed) >= 3
        /\ obs.pushed[1] = <<256 + obs.before.sp, obs.before.pc \div 256>>
        /\ obs.pushed[2] = <<256 + ((obs.before.sp + 255) % 256), obs.before.pc % 256>>
        /\ HasBit(obs.exec.status, FLAG_INTERRUPT_DISABLE)
        /\ obs.exec.pc = Wrap16(Word(PrgVector(65534), PrgVector(65535)) + 1)
  /\ (obs.op = "step" /\ HasBit(obs.before.status, FLAG_INTERRUPT_DISABLE) /\ ~obs.nmi_line) => obs.exec.sp = obs.before.sp

\* C4: the frame loop is left only with a frame ready or with the CPU
\* jammed, and every step of a running CPU either jams it or strictly
\* increases the cycle counter and advances the PPU.
C4_FrameLoopTerminates ==
  /\ driver.pc # "aborted"
  /\ driver.pc = "exited" => cpu.halted
  /\ (obs.op = "step" /\ ~obs.before.halted) =>
        \/ cpu.halted
        \/ /\ cpu.cycles > obs.before.cycles
           /\ <<ppu.scanline, ppu.cycle>> # <<obs.ppu_before.scanline, obs.ppu_before.cycle>>

\* C5: whatever the opcode byte, step() runs an instruction or jams; no
\* opcode reaches the panic arm of the dispatch.
C5_EveryOpcodeDefined == ~(fault /\ obs.handler = "unimplemented")

\* C6: a JAM leaves halted set; while halted, a step changes no register,
\* no memory, no PPU or APU state and no latched NMI; reset clears halted.
C6_JamHalts ==
  /\ [](obs.op = "step" /\ obs.handler = "jam" => cpu.halted)
  /\ [](obs.op = "reset" => ~cpu.halted)
  /\ [][(cpu.halted /\ obs'.op # "reset") => UNCHANGED <<cpu, ram, ppu, apu, controller, cart, fault>>]_vars

\* A step was made on a CPU that a JAM had halted.
C6_Witness == obs.op = "halted_step" /\ obs.prev = "step" /\ cpu.halted /\ obs.before.halted

\* The documented cycle cost of the instruction handler h runs, given
\* whether its indexing (or its branch) crossed a page and whether its
\* branch was taken.
DocumentedCycles(h, crossed, taken) ==
  LET k == KindOf(h)
      mode == ModeOf(h)
      extra == IF crossed THEN 1 ELSE 0
  IN CASE mode = "relative" -> (IF ~taken THEN 2 ELSE 3 + extra)
       [] h = "brk" -> 7
       [] h \in {"jsr", "rts", "rti"} -> 6
       [] h \in {"pha", "php"} -> 3
       [] h \in {"pla", "plp"} -> 4
       [] h = "jmp_absolute" -> 3
       [] h = "jmp_indirect" -> 5
       [] h \notin {"brk", "jsr", "rts", "rti", "pha", "php", "pla", "plp"} /\ mode \in {"implied", "accumulator", "immediate"} -> 2
       [] k \in RmwKinds /\ mode = "zeropage" -> 5
       [] k \in RmwKinds /\ mode \in {"zeropage_x", "absolute"} -> 6
       [] k \in RmwKinds /\ mode \in {"absolute_x", "absolute_y"} -> 7
       [] k \in RmwKinds /\ mode \in {"indirect_x", "indirect_y"} -> 8
       [] k \in StoreKinds /\ mode = "zeropage" -> 3
       [] k \in StoreKinds /\ mode \in {"zeropage_x", "zeropage_y", "absolute"} -> 4
       [] k \in StoreKinds /\ mode \in {"absolute_x", "absolute_y"} -> 5
       [] k \in StoreKinds /\ mode \in {"indirect_x", "indirect_y"} -> 6
       [] k \in ReadKinds /\ mode = "zeropage" -> 3
       [] k \in ReadKinds /\ mode \in {"zeropage_x", "zeropage_y", "absolute"} -> 4
       [] k \in ReadKinds /\ mode \in {"absolute_x", "absolute_y"} -> 4 + extra
       [] k \in ReadKinds /\ mode = "indirect_x" -> 6
       [] k \in ReadKinds /\ mode = "indirect_y" -> 5 + extra

\* C7: the cycles an instruction adds to the counter are its documented
\* cost: indexed reads pay one more cycle exactly when base and indexed
\* address differ in their high byte, a branch costs 2, 3 or 4, indexed
\* stores and read-modify-writes cost the same whether or not a page is
\* crossed.
C7_CycleCosts ==
  (obs.op = "step" /\ ~fault /\ obs.handler \notin {"", "jam"}) =>
     cpu.cycles - obs.exec.cycles = DocumentedCycles(obs.handler, Page(obs.base) # Page(obs.addr), obs.taken)

\* LDA $80FF,X with X = 1 has cost 5 cycles.
C7_Witness ==
  /\ obs.op = "step" /\ obs.handler = "lda_absolute_x"
  /\ obs.base = 33023 /\ obs.addr = 33024 /\ obs.exec.x = 1
  /\ cpu.cycles - obs.exec.cycles = 5

\* C8: NMI entry pushes PCH, PCL and P (B clear, U set) at $0100+SP, SP
\* going down by one after each byte, then sets I, loads PC from
\* $FFFA/$FFFB and charges 7 cycles; BRK does the same with the address of
\* its opcode plus 2, B set in the pushed P, and the vector $FFFE/$FFFF.
C8_InterruptFrame ==
  /\ (obs.op = "step" /\ obs.nmi) =>
        /\ Len(obs.pushed) >= 3
        /\ obs.pushed[1] = <<256 + obs.before.sp, obs.before.pc \div 256>>
        /\ obs.pushed[2] = <<256 + ((obs.before.sp + 255) % 256), obs.before.pc % 256>>
        /\ obs.pushed[3] = <<256 + ((obs.before.sp + 254) % 256), SetBit(ClearBit(obs.before.status, FLAG_BREAK), FLAG_UNUSED)>>
        /\ obs.exec.sp = (obs.before.sp + 253) % 256
        /\ obs.exec.status = SetBit(obs.before.status, FLAG_INTERRUPT_DISABLE)
        /\ obs.exec.pc = Wrap16(Word(PrgVector(65530), PrgVector(65531)) + 1)
        /\ obs.exec.cycles = obs.before.cycles + 7
  /\ (obs.op = "step" /\ obs.handler = "brk") =>
        LET n == Len(obs.pushed)
            ret == Wrap16(obs.exec.pc + 1)
        IN /\ n >= 3
           /\ obs.pushed[n - 2] = <<256 + obs.exec.sp, ret \div 256>>
           /\ obs.pushed[n - 1] = <<256 + ((obs.exec.sp + 255) % 256), ret % 256>>
           /\ obs.pushed[n] = <<256 + ((obs.exec.sp + 254) % 256), SetBit(SetBit(obs.exec.status, FLAG_BREAK), FLAG_UNUSED)>>
           /\ \A i \in (n - 2)..n : Peek(ram, obs.pushed[i][1]) = obs.pushed[i][2]
           /\ cpu.sp = (obs.exec.sp + 253) % 256
           /\ cpu.status = SetBit(obs.exec.status, FLAG_INTERRUPT_DISABLE)
           /\ cpu.pc = Word(PrgVector(65534), PrgVector(65535))
           /\ cpu.cycles = obs.exec.cycles + 7

\* A step serviced an NMI with I clear and then ran BRK: six bytes pushed.
C8_Witness ==
  /\ obs.op = "step" /\ obs.nmi /\ obs.handler = "brk"
  /\ ~HasBit(obs.before.status, FLAG_INTERRUPT_DISABLE)
  /\ Len(obs.pushed) = 6

\* C9: the first/second-write toggle is shared: a $2006 write that follows
\* exactly one $2005 write is a second write (it leaves the high address
\* byte alone), and a $2005 write that follows exactly one $2006 write is
\* a second write (it sets the Y scroll and leaves the X scroll alone).
C9_SharedToggle ==
  /\ (obs.op = "write_2006" /\ obs.prev = "write_2005" /\ obs.toggles = 2) =>
        /\ ppu.addr \div 256 = obs.ppu_before.addr \div 256
        /\ And(ppu.addr % 256, obs.value) = obs.value
  /\ (obs.op = "write_2005" /\ obs.prev = "write_2006" /\ obs.toggles = 2) =>
        /\ ppu.scroll_y = obs.value
        /\ ppu.scroll_x = obs.ppu_before.scroll_x

\* C10: a $2002 read returns vblank in bit 7, sprite-zero hit in bit 6 and
\* sprite overflow in bit 5, and clears vblank, so a read right after it
\* has bit 7 clear; the $2005 or $2006 write right after a read is a first
\* write (X scroll, high address byte).
C10_StatusRead ==
  /\ obs.op = "read_2002" =>
        /\ HasBit(obs.value, 128) = obs.ppu_before.vblank
        /\ HasBit(obs.value, 64) = obs.ppu_before.sprite_0_hit
        /\ HasBit(obs.value, 32) = obs.ppu_before.sprite_overflow
        /\ ~ppu.vblank
  /\ (obs.op = "read_2002" /\ obs.prev = "read_2002") => ~HasBit(obs.value, 128)
  /\ (obs.op = "write_2006" /\ obs.prev = "read_2002") => ppu.addr = obs.value * 256
  /\ (obs.op = "write_2005" /\ obs.prev = "read_2002") => (ppu.scroll_x = obs.value /\ ppu.scroll_y = obs.ppu_before.scroll_y)

\* $2002 was read in vblank with both write latches set.
C10_Witness ==
  /\ obs.op = "read_2002" /\ HasBit(obs.value, 128)
  /\ obs.ppu_before.addr_latch /\ obs.ppu_before.scroll_latch
  /\ ~ppu.addr_latch /\ ~ppu.scroll_latch

\* C11: a $2007 read at a VRAM address in $0000-$3EFF that follows
\* another $2007 read returns the byte the previous read fetched (the
\* read latch), not the byte at its own address; a read at a palette
\* address returns the byte at its own address.
C11_ReadLatch ==
  \A i \in 2..Len(driver.log) :
    (driver.log[i].op = "read" /\ driver.log[i - 1].op = "read") =>
      driver.log[i].value = IF driver.log[i].addr % 16384 < 16128 THEN driver.log[i - 1].fetched ELSE driver.log[i].fetched

\* C12: a byte B written through $2007 at a nametable or pattern-memory
\* address V is recovered by setting the address to V again with two
\* $2006 writes and reading $2007 twice: the second read returns B.
C12_RoundTrip ==
  \A i \in 1..Len(driver.log) :
    (/\ i + 4 <= Len(driver.log)
     /\ driver.log[i].op = "write" /\ driver.log[i].addr % 16384 < 16128
     /\ driver.log[i + 1].op = "addr" /\ driver.log[i + 2].op = "addr"
     /\ driver.log[i + 3].op = "read" /\ driver.log[i + 3].addr = driver.log[i].addr
     /\ driver.log[i + 4].op = "read")
    => driver.log[i + 4].value = driver.log[i].value

\* C13: of the 32 palette addresses only $3F10, $3F14, $3F18 and $3F1C
\* are aliases, each of the address $10 below it: after a $2007 write at
\* a palette address A, a read at A or at the alias of A returns the byte
\* written (its low six bits), and a read at every other palette address
\* returns what it returned before the write.
C13_PaletteAliases ==
  LET n == Len(driver.log)
      alias(i) == IF i \in {16, 20, 24, 28} THEN i - 16 ELSE i
  IN (n > 0 /\ driver.log[n].op = "write" /\ driver.log[n].addr % 16384 >= 16128) =>
       \A i \in 0..31 :
         ReadDataValue([ppu EXCEPT !.addr = 16128 + i], cart, 0)
           = IF alias(i) = alias(driver.log[n].addr % 32)
             THEN driver.log[n].value % 64
             ELSE ReadDataValue([obs.ppu_before EXCEPT !.addr = 16128 + i], cart, 0)

\* C14: a write of page P to $4014 copies the 256 bytes $PP00-$PPFF of the
\* CPU address space into OAM starting at the OAM address k held at the
\* time of the write: source byte i lands in OAM[(k + i) mod 256].
C14_OamDmaFromOamAddr ==
  obs.op = "write_4014" =>
    \A i \in 0..255 :
      Peek(ppu.oam, (obs.ppu_before.oam_addr + i) % 256) = BusReadValue(Machine, obs.value * 256 + i, 0)

\* C15: the $4014 write stalls the CPU: STA $4014 costs its 4 cycles and
\* 513 more when the write lands on an even CPU cycle, 514 when odd.
C15_OamDmaStall ==
  (obs.op = "step" /\ obs.handler = "sta_absolute" /\ obs.addr = 16404) =>
    cpu.cycles - obs.before.cycles = 4 + 513 + ((obs.before.cycles + 3) % 2)

\* C16: after 1 then 0 is written to $4016, the k-th read of $4016 that
\* follows (k = 0..7) returns $40 with bit k of the button mask in bit 0.
C16_PadBits ==
  (obs.op = "read_4016" /\ driver.released /\ driver.reads \in 1..8) =>
    obs.value = 64 + ((controller.state \div (2 ^ (driver.reads - 1))) % 2)

\* The eighth read after a strobe with the mask $A5 held returns $41
\* (bit 7 of the mask), after the second read returned $40 (bit 1).
C16_Witness ==
  /\ obs.op = "read_4016" /\ driver.released /\ driver.reads = 8
  /\ controller.state = 165 /\ obs.value = 65

\* C17: once the strobe is released and eight reads have been made, every
\* further read of $4016 returns $41 until the next strobe.
C17_PadReadsOneAfterEight ==
  (obs.op = "read_4016" /\ driver.released /\ driver.reads > 8) => obs.value = 65

\* C18 as stated: from an empty shift register, the fifth of five CPU
\* writes with bit 7 clear latches the value b4b3b2b1b0 of their bits 0
\* into the register its own address selects (control for $8000-$9FFF,
\* PRG bank for $E000-$FFFF) and empties the shift register; the first
\* four writes change neither register.
C18_FifthWriteLatchesFiveBits ==
  (obs.op = "cart_write" /\ obs.value < 128) =>
    IF Len(driver.bits) < 5
    THEN cart.control = driver.was.control /\ cart.prg_bank = driver.was.prg_bank
    ELSE /\ cart.shift_reg = 0 /\ cart.shift_count = 0
         /\ cart.control = IF obs.addr <= 40959
                           THEN driver.bits[1] + 2 * driver.bits[2] + 4 * driver.bits[3] + 8 * driver.bits[4] + 16 * driver.bits[5]
                           ELSE driver.was.control
         /\ cart.prg_bank = IF obs.addr >= 57344
                            THEN driver.bits[1] + 2 * driver.bits[2] + 4 * driver.bits[3] + 8 * driver.bits[4] + 16 * driver.bits[5]
                            ELSE driver.was.prg_bank

\* C18 as amended: the control register takes all five bits, the PRG bank
\* register the low four (b3b2b1b0); the rest as stated.
C18_FifthWriteLatches ==
  (obs.op = "cart_write" /\ obs.value < 128) =>
    IF Len(driver.bits) < 5
    THEN cart.control = driver.was.control /\ cart.prg_bank = driver.was.prg_bank
    ELSE /\ cart.shift_reg = 0 /\ cart.shift_count = 0
         /\ cart.control = IF obs.addr <= 40959
                           THEN driver.bits[1] + 2 * driver.bits[2] + 4 * driver.bits[3] + 8 * driver.bits[4] + 16 * driver.bits[5]
                           ELSE driver.was.control
         /\ cart.prg_bank = IF obs.addr >= 57344
                            THEN driver.bits[1] + 2 * driver.bits[2] + 4 * driver.bits[3] + 8 * driver.bits[4]
                            ELSE driver.was.prg_bank

\* Five writes carrying 1, 0, 1, 0, 1, the fifth one to $E000, have set
\* the PRG bank register to 5 from another value.
C18_Witness ==
  /\ obs.op = "cart_write" /\ obs.addr = 57344 /\ driver.bits = <<1, 0, 1, 0, 1>>
  /\ cart.prg_bank = 5 /\ driver.was.prg_bank = 2 /\ cart.shift_count = 0

\* C19: in PRG mode 3 a CPU read of $C000-$FFFF returns the byte at the
\* same offset of the last 16 KiB bank of the image, whatever the PRG bank
\* register holds, and a read of $8000-$BFFF the byte at the same offset
\* of the bank the PRG bank register names; five writes of $00 to $E000
\* from the default state leave bank 0 at $8000.
C19_PrgModeThree ==
  /\ (obs.op = "cart_read" /\ prg_bank_mode(cart) = 3) =>
       /\ ~fault
       /\ driver.index % 16384 = obs.addr % 16384
       /\ driver.index \div 16384 = IF obs.addr >= 49152 THEN cart.banks - 1 ELSE cart.prg_bank
  /\ (obs.op = "cart_write" /\ obs.addr = 57344 /\ driver.bits = <<0, 0, 0, 0, 0>> /\ cart.control = 12) =>
       Mapper1ReadIndex(cart, 32768) = 0

\* C20 as stated: the IRQ counter changes only on a pattern access with
\* A12 set that follows one with A12 clear; on that edge it is reloaded
\* from the latch, and reload-pending cleared, if it was 0 or a reload was
\* pending, and otherwise decremented by one; the pending IRQ is raised
\* exactly on an edge that leaves the counter 0 with the IRQ enabled.
C20_CounterClockedByChrEdgeOnly ==
  LET edge == obs.op = "chr_access" /\ HasBit(obs.addr, 4096) /\ ~driver.was.last_chr_a12
  IN /\ cart.irq_counter # driver.was.irq_counter => edge
     /\ edge => IF driver.was.irq_counter = 0 \/ driver.was.irq_reload_pending
                THEN cart.irq_counter = driver.was.irq_latch /\ ~cart.irq_reload_pending
                ELSE cart.irq_counter = driver.was.irq_counter - 1 /\ ~cart.irq_reload_pending
     /\ edge => (cart.irq_pending <=> (driver.was.irq_pending \/ (cart.irq_counter = 0 /\ cart.irq_enabled)))
     /\ ~edge => (cart.irq_pending => driver.was.irq_pending)

\* C20 as amended: the IRQ counter changes only on such an edge or on a
\* write to an odd address in $C000-$DFFF, which clears it; the rest as
\* stated.
C20_CounterClockedByChrEdge ==
  LET edge == obs.op = "chr_access" /\ HasBit(obs.addr, 4096) /\ ~driver.was.last_chr_a12
      reload == obs.op = "cart_write" /\ obs.addr >= 49152 /\ obs.addr < 57344 /\ obs.addr % 2 = 1
  IN /\ cart.irq_counter # driver.was.irq_counter => (edge \/ (reload /\ cart.irq_counter = 0))
     /\ edge => IF driver.was.irq_counter = 0 \/ driver.was.irq_reload_pending
                THEN cart.irq_counter = driver.was.irq_latch /\ ~cart.irq_reload_pending
                ELSE cart.irq_counter = driver.was.irq_counter - 1 /\ ~cart.irq_reload_pending
     /\ edge => (cart.irq_pending <=> (driver.was.irq_pending \/ (cart.irq_counter = 0 /\ cart.irq_enabled)))
     /\ ~edge => (cart.irq_pending => driver.was.irq_pending)

\* An access at $1000 after one at $0FFF has taken the counter from 1 to 0
\* with the IRQ enabled and raised the pending IRQ.
C20_Witness ==
  /\ obs.op = "chr_access" /\ obs.addr = 4096 /\ ~driver.was.last_chr_a12
  /\ driver.was.irq_counter = 1 /\ ~driver.was.irq_reload_pending /\ cart.irq_counter = 0
  /\ cart.irq_enabled /\ cart.irq_pending /\ ~driver.was.irq_pending

\* C21 (as stated): once the latch L has been written to $C000, a reload
\* requested through $C001 and the IRQ enabled through $E001, the pending
\* IRQ is asserted on the L-th rising edge of CHR A12 after the enable.
C21_IrqOnLthEdge == driver.phase = "fired" => driver.edges = cart.irq_latch

\* C21 (amended): after that sequence the pending IRQ is asserted on the
\* (L+1)-th rising edge of CHR A12 after the enable (the first edge reloads
\* the counter with L, each later one decrements it), not on an earlier or
\* a later edge.
C21_IrqOnEdgeAfterLth ==
  /\ driver.phase = "fired" => driver.edges = cart.irq_latch + 1
  /\ driver.phase = "armed" => (driver.edges <= cart.irq_latch /\ ~cart.irq_pending)

\* C21 witness: with latch 2 the IRQ has been asserted by the third edge.
C21_Witness == driver.phase = "fired" /\ cart.irq_latch = 2 /\ driver.edges = 3 /\ cart.irq_pending

\* C22: a CPU write to an even address in $A000-$BFFF on MMC3 sets the
\* nametable mirroring from data bit 0, 0 selecting vertical and 1
\* horizontal mirroring; a write to an odd address in that range leaves the
\* mirroring as it was.
C22_MirroringFromBitZero ==
  (obs.op = "cart_write" /\ obs.addr >= 40960 /\ obs.addr < 49152) =>
    cart.mirroring = (IF obs.addr % 2 = 1 THEN driver.was.mirroring
                      ELSE IF obs.value % 2 = 0 THEN "Vertical" ELSE "Horizontal")

\* C30: on an MMC3 cartridge a byte the CPU has written to an address in
\* $6000-$7FFF (PRG-RAM) is the byte a later CPU read of the same address
\* returns.
C30_PrgRamRoundTrip ==
  (obs.op = "bus_read" /\ driver.written[obs.addr] >= 0) => obs.value = driver.written[obs.addr]

\* One CPU cycle of the 4-step sequence as C23 states it: fc cycles after
\* the last $4017 write or wrap a quarter frame is clocked at 7457, 14913,
\* 22371 and 29829, a half frame at 14913 and 29829, the frame-IRQ flag is
\* set at 29829 iff the inhibit flag is clear, and nothing else is clocked.
SeqClaimed(a) ==
  LET fc == a.frame_cycle + 1
      a0 == IF fc \in {7457, 14913, 22371, 29829} THEN ClockQuarterFrame(a) ELSE a
      a1 == IF fc \in {14913, 29829} THEN ClockHalfFrame(a0) ELSE a0
  IN [a1 EXCEPT !.frame_cycle = IF fc >= FRAME_4STEP_RESET THEN 0 ELSE fc,
                !.status = IF fc = 29829 /\ ~a.frame_irq_inhibit THEN SetBit(@, 64) ELSE @]

\* The channel state the sequencer clocks, and the frame-IRQ flag.
SeqClocked(a) == <<a.pulse1, a.pulse2, a.triangle, a.noise, HasBit(a.status, 64)>>

\* C23: in 4-step mode a call of APU::tick clocks, cycle by cycle, what the
\* sequence of C23 clocks: quarter frames at 7457, 14913, 22371 and 29829,
\* half frames at 14913 and 29829, the frame-IRQ flag at 29829 iff the
\* inhibit flag is clear, and nothing at any other cycle.
C23_FourStepSequence ==
  (obs.op = "apu_tick" /\ driver.was.frame_4step) =>
    SeqClocked(apu) = SeqClocked(IF obs.value = 1 THEN SeqClaimed(driver.was)
                                 ELSE SeqClaimed(SeqClaimed(SeqClaimed(driver.was))))

\* C24: a read of $4015 returns bits 0..3 set iff the length counter of
\* pulse 1, pulse 2, triangle, noise is > 0, bit 4 iff the DMC is active
\* (it has bytes left to play), bit 6 = the frame-IRQ flag and bit 7 = the
\* DMC-IRQ flag; the read clears the frame-IRQ flag, so that an immediately
\* following read has bit 6 clear, and leaves the DMC-IRQ flag as it was.
C24_StatusRead ==
  obs.op = "read_4015" =>
    /\ HasBit(obs.value, 1) = (driver.was.pulse1.length_counter > 0)
    /\ HasBit(obs.value, 2) = (driver.was.pulse2.length_counter > 0)
    /\ HasBit(obs.value, 4) = (driver.was.triangle.length_counter > 0)
    /\ HasBit(obs.value, 8) = (driver.was.noise.length_counter > 0)
    /\ HasBit(obs.value, 16) = (driver.was.dmc.bytes_remaining > 0 \/ driver.was.dmc.sample_buffer # -1)
    /\ HasBit(obs.value, 64) = HasBit(driver.was.status, 64)
    /\ HasBit(obs.value, 128) = HasBit(driver.was.status, 128)
    /\ ~HasBit(ApuReadStatusValue(apu), 64)
    /\ HasBit(apu.status, 128) = HasBit(driver.was.status, 128)

\* The four length-counter channels of APU a, each with its $4015 bit and
\* its length-load register.
ApuChannels(a) ==
  { [c |-> a.pulse1, bit |-> 1, load |-> 16387], [c |-> a.pulse2, bit |-> 2, load |-> 16391],
    [c |-> a.triangle, bit |-> 4, load |-> 16395], [c |-> a.noise, bit |-> 8, load |-> 16399] }

\* C25: a write of $4015 with a channel's enable bit clear zeroes that
\* channel's length counter at once; while a channel is disabled its
\* length counter stays 0 whatever is loaded ($4003/$4007/$400B/$400F), so
\* its $4015 status bit reads 0 and its output is silent; a length load
\* made while the channel is enabled makes its status bit read 1 on the
\* next read.
C25_DisabledChannelStaysSilent ==
  /\ \A ch \in ApuChannels(apu) :
       /\ (obs.op = "apu_write" /\ obs.addr = 16405 /\ ~HasBit(obs.value, ch.bit)) => ch.c.length_counter = 0
       /\ ~ch.c.enabled => (ch.c.length_counter = 0 /\ ~HasBit(ApuReadStatusValue(apu), ch.bit) /\ ChannelSilent(ch.c))
       /\ (obs.op = "apu_write" /\ obs.addr = ch.load /\ ch.c.enabled) => HasBit(ApuReadStatusValue(apu), ch.bit)

\* C25 witness: pulse 1, disabled, has had a length load and is still at 0,
\* while pulse 2, enabled, holds the 254 loaded into it.
C25_Witness ==
  /\ obs.op = "apu_write" /\ obs.addr = 16387 /\ ~apu.pulse1.enabled /\ apu.pulse1.length_counter = 0
  /\ apu.pulse2.enabled /\ apu.pulse2.length_counter = 254

\* C26: a pending DMC fetch request is serviced before the next CPU
\* instruction is fetched (no step starts while a request is pending), and
\* its service adds exactly 4 cycles to the CPU cycle counter, ticks 12 PPU
\* dots and 4 APU cycles, reads the byte at the DMC's current address
\* (an address of the cartridge), feeds it to the DMC and clears the
\* request, so that a request causes exactly one 4-cycle stall.
C26_DmcFetchServiced ==
  [][ /\ apu.dmc.fetch_pending => obs'.op \notin {"step", "halted_step"}
      /\ obs'.op = "stall" =>
           /\ apu.dmc.fetch_pending
           /\ cpu'.cycles = cpu.cycles + 4
           /\ obs'.ppu_dots = obs.ppu_dots + 12
           /\ obs'.apu_cycles = obs.apu_cycles + 4
           /\ obs'.addr = apu.dmc.current_address /\ obs'.addr >= 32768
           /\ apu'.dmc.sample_buffer = obs'.value
           /\ ~apu'.dmc.fetch_pending ]_vars

\* C27: each byte fed to the DMC advances its current address by one,
\* $FFFF wrapping to $8000, and takes one from bytes-remaining; when that
\* reaches 0 the sample restarts at the start address with the sample
\* length if the loop flag is set, and otherwise the DMC-IRQ flag is raised
\* iff the DMC IRQ is enabled; no step raises the DMC-IRQ flag while the
\* loop flag is set.
C27_FeedByte ==
  [][ /\ obs'.op = "stall" =>
           LET d == apu.dmc
               next == IF d.current_address = 65535 THEN 32768 ELSE d.current_address + 1
               ends == d.bytes_remaining = 1
           IN /\ d.bytes_remaining > 0
              /\ apu'.dmc.current_address = IF ends /\ d.loop_flag THEN d.start_address ELSE next
              /\ apu'.dmc.bytes_remaining = IF ends /\ d.loop_flag THEN d.sample_length ELSE d.bytes_remaining - 1
              /\ HasBit(apu'.status, 128) <=> (HasBit(apu.status, 128) \/ (ends /\ ~d.loop_flag /\ d.irq_enable))
      /\ (~HasBit(apu.status, 128) /\ HasBit(apu'.status, 128)) => (~apu.dmc.loop_flag /\ ~apu'.dmc.loop_flag) ]_vars

\* C27 witness: the byte at $FFFF has been fed: the current address has
\* wrapped to $8000 and one byte of the sample remains.
C27_Witness ==
  /\ obs.op = "stall" /\ obs.addr = 65535
  /\ apu.dmc.current_address = 32768 /\ apu.dmc.bytes_remaining = 1

\* C28: after any number of PPU ticks the dot counter is in 0..340 and the
\* scanline in -1..260; a tick moves the scanline only at the end of its
\* 341 dots, from -1 through 0, ..., 260 and back to -1; the vblank flag
\* and frame_ready are set by the tick that reaches scanline 241 dot 1 and
\* by no other, which is every 89342nd tick; the tick that reaches dot 1 of
\* the pre-render scanline clears the vblank flag, and no other tick does.
C28_DotClock ==
  /\ [](/\ ppu.cycle \in 0..340 /\ ppu.scanline \in -1..260
        /\ ppu.cycle = obs.ppu_dots % 341
        /\ ppu.scanline = ((obs.ppu_dots \div 341) % 262) - 1)
  /\ [][ obs'.op = "ppu_tick" =>
           LET atVblank == ppu'.scanline = 241 /\ ppu'.cycle = 1
               atPre == ppu'.scanline = -1 /\ ppu'.cycle = 1
           IN /\ obs'.ppu_dots = obs.ppu_dots + 1
              /\ ppu'.scanline = IF ppu.cycle < 340 THEN ppu.scanline
                                 ELSE IF ppu.scanline = 260 THEN -1 ELSE ppu.scanline + 1
              /\ atVblank => ppu'.vblank /\ ppu'.frame_ready
              /\ atVblank <=> obs'.ppu_dots % 89342 = (242 * 341 + 1) % 89342
              /\ (ppu'.vblank /\ ~ppu.vblank) => atVblank
              /\ (ppu'.frame_ready /\ ~ppu.frame_ready) => atVblank
              /\ atPre => ~ppu'.vblank
              /\ (ppu.vblank /\ ~ppu'.vblank) => atPre ]_vars

\* C28 witness: the second vblank, 89342 dots after the first: the tick
\* that reached scanline 241 dot 1 has raised the vblank flag, cleared on
\* the pre-render scanline, and frame_ready, cleared when the first frame
\* was presented.
C28_Witness ==
  /\ obs.op = "ppu_tick" /\ obs.ppu_dots = 82523 + 89342
  /\ ppu.scanline = 241 /\ ppu.cycle = 1 /\ ppu.vblank /\ ppu.frame_ready
  /\ ~driver.was.vblank /\ ~driver.was.frame_ready /\ driver.frames = 1

\* C29: on the image filled with NOP whose reset vector is $8000, the
\* frame loop first finds frame_ready set with the CPU cycle counter at
\* 29780 or more.
C29_FirstFrameCycles ==
  (driver.image = "nop" /\ driver.pc = "frame" /\ driver.frames = 0 /\ ppu.frame_ready) => cpu.cycles >= 29780

\* C29, amended: on that image the frame loop first finds frame_ready set
\* with the CPU cycle counter at 27515 or more.
C29_FirstFrameCyclesFromPreRender ==
  (driver.image = "nop" /\ driver.pc = "frame" /\ driver.frames = 0 /\ ppu.frame_ready) => cpu.cycles >= 27515

\* C29 witness: the NOP that crosses scanline 241 dot 1 has run: the frame
\* loop is at its head with frame_ready set, no frame presented yet, 27508
\* cycles after the 7 of reset, the program counter 13754 NOPs on.
C29_Witness ==
  /\ driver.image = "nop" /\ driver.pc = "frame" /\ driver.frames = 0 /\ ppu.frame_ready
  /\ cpu.cycles = 27515 /\ cpu.pc = 32768 + 13754 /\ obs.op = "step"

\* C31: on an NROM cartridge with CHR-ROM (header CHR size not 0) no
\* $2006/$2007 write changes pattern memory: every pattern-table address
\* still reads the byte of the image (0 here), and in particular every
\* $2007 read at such an address finds that byte.
C31_ChrRomReadOnly ==
  cart.chr_banks > 0 =>
    /\ \A a \in 0..8191 : ChrRead(cart, a, 0) = 0
    /\ \A i \in 1..Len(driver.log) :
         (driver.log[i].op = "read" /\ driver.log[i].addr % 16384 < 8192) => driver.log[i].fetched = 0

\* C32: an image whose magic is not "NES\x1A" loads as BadHeader, one
\* shorter than 16 bytes plus its declared PRG and CHR as Truncated, one
\* whose mapper is not 0, 1 or 4 as UnsupportedMapper; none of them
\* crashes the loader or is accepted as a cartridge.
C32_LoadErrors ==
  driver.pc = "loaded" =>
    LET rom == driver.rom
        short == rom.len < DeclaredLen(rom)
        unsupported == MapperId(rom) \notin {0, 1, 4}
    IN /\ ~rom.magic => driver.result = "BadHeader"
       /\ (rom.magic /\ short) => driver.result = "Truncated"
       /\ (rom.magic /\ ~short /\ unsupported) => driver.result = "UnsupportedMapper"
       /\ (~rom.magic \/ short \/ unsupported) => (~fault /\ driver.result # "cartridge")

\* C33: for every accumulator A, operand M and carry-in c, ADC leaves
\* A + M + c (mod 256) in the accumulator, sets C to the carry out of that
\* sum and V to ((~(A ^ M) & (A ^ R)) & $80) # 0, R being the result; SBC
\* with operand M leaves the A, C, V, Z and N that ADC leaves with operand
\* M ^ $FF.
C33_AdcSbc ==
  driver.pc = "done" =>
    LET A == obs.before.a
        M == driver.operand
        sum == A + M + CarryIn(obs.before.status)
        R == sum % 256
        adc == Adc(obs.before, Xor(M, 255))
        flags == FLAG_CARRY + FLAG_OVERFLOW + FLAG_ZERO + FLAG_NEGATIVE
    IN /\ obs.handler \in {"adc_immediate", "sbc_immediate"}
       /\ obs.handler = "adc_immediate" =>
            /\ cpu.a = R
            /\ HasBit(cpu.status, FLAG_CARRY) <=> sum > 255
            /\ HasBit(cpu.status, FLAG_OVERFLOW) <=> And(And(255 - Xor(A, M), Xor(A, R)), 128) # 0
       /\ obs.handler = "sbc_immediate" =>
            /\ cpu.a = adc.a
            /\ And(cpu.status, flags) = And(adc.status, flags)

\* C33 witness: SBC #$01 with A = $80 and the carry set has left $7F with
\* C and V set and Z and N clear, as ADC #$FE does.
C33_Witness ==
  /\ driver.pc = "done" /\ obs.handler = "sbc_immediate"
  /\ obs.before.a = 128 /\ driver.operand = 1 /\ HasBit(obs.before.status, FLAG_CARRY)
  /\ cpu.a = 127 /\ HasBit(cpu.status, FLAG_CARRY) /\ HasBit(cpu.status, FLAG_OVERFLOW)
  /\ ~HasBit(cpu.status, FLAG_ZERO) /\ ~HasBit(cpu.status, FLAG_NEGATIVE)

\* C34: JMP (P), for every pointer P, $FFFF included, reads the low byte
\* of the target from P and the high byte from (P & $FF00) | ((P + 1) &
\* $00FF), and costs 5 cycles. obs.base is P and obs.addr the address the
\* high byte was read from; the cartridge holds $80 at that address and $00
\* or $C1 at P, but for its vectors.
C34_JmpIndirect ==
  (obs.op = "step" /\ obs.handler = "jmp_indirect") =>
    /\ ~fault
    /\ cpu.cycles = obs.exec.cycles + 5
    /\ obs.addr = Page(obs.base) + ((obs.base + 1) % 256)
    /\ obs.base % 256 = 255 => obs.addr = obs.base - 255
    /\ cpu.pc % 256 \in (IF obs.base < 8192 THEN {Peek(ram, obs.base % 2048)}
                         ELSE IF obs.base >= 65530 THEN {PrgVector(obs.base)} ELSE {0, 193})
    /\ cpu.pc \div 256 = (IF obs.addr < 8192 THEN Peek(ram, obs.addr % 2048)
                          ELSE IF obs.addr >= 65530 THEN PrgVector(obs.addr) ELSE 128)

\* C35: when a visible scanline is rendered, the sprite-overflow flag
\* becomes set iff more than 8 of the 64 OAM entries have the scanline in
\* their Y range (8 or 16 lines from their Y, by PPUCTRL bit 5), and the
\* entries selected for drawing are the first 8 of those in OAM order
\* (all of them when there are 8 or fewer).
C35_SpriteOverflow ==
  driver.line >= 0 =>
    LET height == IF HasBit(driver.was.ctrl, 32) THEN 16 ELSE 8
        inRange == {i \in 0..63 : driver.line >= Peek(driver.was.oam, 4 * i) /\ driver.line < Peek(driver.was.oam, 4 * i) + height}
        chosen == {driver.slots[k] : k \in 1..Len(driver.slots)}
    IN /\ driver.overflow <=> Cardinality(inRange) > 8
       /\ ppu.sprite_overflow <=> (driver.was.sprite_overflow \/ Cardinality(inRange) > 8)
       /\ Len(driver.slots) = (IF Cardinality(inRange) > 8 THEN 8 ELSE Cardinality(inRange))
       /\ \A k \in 1..(Len(driver.slots) - 1) : driver.slots[k] < driver.slots[k + 1]
       /\ chosen \subseteq inRange
       /\ \A i \in inRange \ chosen : \A j \in chosen : j < i

\* C35 witness: scanline 2 has been rendered with nine sprites on it: the
\* flag, down before, is set, and the eight selected leave out entry 63.
C35_Witness ==
  /\ driver.line = 2 /\ driver.overflow /\ ppu.sprite_overflow /\ ~driver.was.sprite_overflow
  /\ driver.slots = <<0, 5, 6, 7, 20, 21, 40, 41>>

\* The byte a $2007 read of address b would fetch from PPU state p.
NtSeen(p, c, b) == ReadDataValue([p EXCEPT !.addr = b], c, 0)

\* The logical table (0..3) of a nametable address, $3000-$3EFF counted as
\* $2000-$2EFF.
NtTable(addr) == ((addr - 8192) % 4096) \div 1024

\* Whether two logical tables share storage under a mirroring mode.
NtSameStorage(mode, s, t) ==
  CASE mode = "Vertical" -> s % 2 = t % 2
    [] mode = "Horizontal" -> s \div 2 = t \div 2
    [] OTHER -> TRUE

\* The addresses compared after a write of address a: the same offset and
\* the next one in each of the four tables and in their mirrors.
NtProbes(a) == { b \in { 8192 + (4096 * k) + (1024 * t) + ((a + d) % 1024) : k \in {0, 1}, t \in 0..3, d \in {0, 1} } : b < 16128 }

\* C36: a $2007 write of a nametable address ($2000-$3EFF) stores the byte
\* below index $800 of nametable RAM, where every address of the same
\* offset in a table sharing storage with the written one under the
\* mirroring mode the mapper reports at the access reads it back, and no
\* other address does: vertical pairs tables {0,2} and {1,3}, horizontal
\* {0,1} and {2,3}, one-screen-lower puts all four in the first 1 KiB,
\* one-screen-upper in the second, and $3000-$3EFF stands for $2000-$2EFF.
C36_NametableMirroring ==
  [][(obs'.op = "write_2007" /\ ppu.addr % 16384 >= 8192 /\ ppu.addr % 16384 < 16128) =>
       LET a == ppu.addr % 16384
           mode == Mirroring(cart)
       IN /\ \A i \in DOMAIN ppu'.nametable : i < 2048
          /\ \A b \in NtProbes(a) :
               NtSeen(ppu', cart, b) = (IF b % 1024 = a % 1024 /\ NtSameStorage(mode, NtTable(a), NtTable(b))
                                        THEN obs'.value ELSE NtSeen(ppu, cart, b))
          /\ mode = "OneScreenLower" => Peek(ppu'.nametable, a % 1024) = obs'.value
          /\ mode = "OneScreenUpper" => Peek(ppu'.nametable, 1024 + (a % 1024)) = obs'.value]_vars

\* A write through the mirror at $3000-$3EFF on an MMC1 cartridge that
\* reports one-screen-upper, and a write on a cartridge whose mirroring
\* mode the program changed during the run.
C36_Witness ==
  /\ obs.op = "write_2007"
  /\ obs.ppu_before.addr >= 12288 /\ obs.ppu_before.addr < 16128
  /\ MapperKind(cart) = "mmc1" /\ Mirroring(cart) = "OneScreenUpper"
  /\ \E i \in DOMAIN ppu.nametable : i >= 1024 /\ ppu.nametable[i] = obs.value

\* The four registers of an MMC1 cartridge.
Mmc1Regs(c) == <<c.shift_reg, c.shift_count, c.control, c.prg_bank>>

\* C37: the shift register, shift count, control and PRG bank registers of
\* an MMC1 cartridge change only on CPU writes to $8000-$FFFF; a $2007
\* write of a pattern address ($0000-$1FFF) leaves all four as they were,
\* whatever the byte.
C37_RegistersChangeOnCpuWritesOnly ==
  [][/\ Mmc1Regs(cart') # Mmc1Regs(cart) => obs'.op = "cart_write" /\ obs'.addr >= 32768
     /\ (obs'.op = "write_2007" /\ ppu.addr % 16384 < 8192) => Mmc1Regs(cart') = Mmc1Regs(cart)]_vars

\* C38: whatever the program has written to the MMC1 registers, a CPU read
\* of $8000-$FFFF indexes inside PRG-ROM.
C38_ReadsInsidePrgRom ==
  obs.op = "cart_read" => driver.index >= 0 /\ driver.index < cart.banks * 16384 /\ ~fault

\* What a pending fetch request implies of the DMC.
DmcRequestSound(d) == d.fetch_pending => d.enabled /\ d.sample_buffer = -1 /\ d.bytes_remaining > 0

\* C39: through register writes, ticks and bytes fed in answer to a
\* request, a pending DMC fetch request always finds the DMC enabled, its
\* sample buffer empty and bytes remaining; a $4015 write with bit 4 clear
\* cancels a pending request, and feeding a byte clears it.
C39_FetchRequest ==
  [][/\ DmcRequestSound(apu.dmc) /\ DmcRequestSound(apu'.dmc)
     /\ (obs'.op = "apu_write" /\ obs'.addr = 16405 /\ ~HasBit(obs'.value, 16)) => ~apu'.dmc.fetch_pending
     /\ obs'.op = "stall" => apu.dmc.fetch_pending /\ ~apu'.dmc.fetch_pending]_vars

\* A pending request has been cancelled by a $4015 write with bytes of the
\* sample still to fetch.
C39_Witness ==
  /\ obs.op = "apu_write" /\ obs.addr = 16405 /\ obs.value = 0
  /\ driver.was.dmc.fetch_pending /\ ~apu.dmc.fetch_pending /\ apu.dmc.bytes_remaining > 0

\* The byte the last push of the current operation stored.
LastPushed == obs.pushed[Len(obs.pushed)][2]

\* C40: after reset, whatever instructions run and interrupts are taken,
\* PLP and RTI of any byte included, the status register has bit 5 (U) set
\* and bit 4 (B) clear; the copy of it an NMI pushes has B clear and U
\* set, and the copy PHP and BRK push has B set.
C40_UnusedSetBreakClear ==
  /\ HasBit(cpu.status, FLAG_UNUSED) /\ ~HasBit(cpu.status, FLAG_BREAK)
  /\ obs.nmi => ~HasBit(obs.pushed[3][2], FLAG_BREAK) /\ HasBit(obs.pushed[3][2], FLAG_UNUSED)
  /\ (obs.op = "step" /\ obs.handler \in {"php", "brk"}) =>
       LastPushed = SetBit(SetBit(obs.exec.status, FLAG_BREAK), FLAG_UNUSED)

\* The third instruction of a run, a PLP, has popped a byte with B set and
\* U clear.
C40_Witness ==
  /\ obs.op = "step" /\ obs.handler = "plp" /\ ~fault
  /\ HasBit(Peek(ram, 256 + cpu.sp), FLAG_BREAK) /\ ~HasBit(Peek(ram, 256 + cpu.sp), FLAG_UNUSED)
  /\ driver.steps = 3

====
